---- MODULE Spec2Model ----
(***************************************************************************)
(* The context-scoped backend I/O protocol of an IDS top-level:            *)
(* IDSToplevel.get / put / deleteData (imaspy/ids_toplevel.py) and         *)
(* IDSStructArray.get / put (imaspy/ids_struct_array.py), run against an   *)
(* opaque backend that answers every call with a status.                   *)
(*                                                                         *)
(* The tree of the model is one top-level with the children                *)
(*   ids_properties { homogeneous_time, version_put { data_dictionary,     *)
(*                    access_layer_language } }, time, x, aos[] { v }      *)
(* A top-level operation is executed one backend call at a time; `pc` is   *)
(* the position in the code and `loc` holds the local variables.           *)
(*                                                                         *)
(* Spec        put, get and deleteData on a top-level built without a      *)
(*             backend version                                             *)
(* SpecVersion get on a top-level built with a backend version or a        *)
(*             backend xml path, over data written under several versions  *)
(* SpecArray   append, resize, item assignment and get on an array of      *)
(*             structures with or without a maximum-occurrence             *)
(* SpecStamp   the operations of Spec on a top-level whose version_put may *)
(*             already be filled                                           *)
(* SpecHash    calc_hash and serialize / deserialize over edited trees     *)
(* SpecIter    tree_iter, one yielded node at a time                       *)
(* SpecNc      ids2nc: the dimension sizes and the variables it stores     *)
(* SpecDiff    idsdiffgen over two trees                                   *)
(* SpecFile    UALFile: construction, attribute assignment and close       *)
(* SpecOcc     put, get and deleteData with an occurrence, each run to its *)
(*             end against a backend that keeps one tree per path          *)
(***************************************************************************)
EXTENDS Integers, Sequences, FiniteSets, TLC

\* ------------------------------------------------------------------ bounds
MaxLen == 2
MaxOps == 2
MaxFaults == 1

\* ------------------------------------------------------- program constants
EMPTY_INT == -999999999
IDS_TIME_MODE_UNKNOWN == EMPTY_INT
IDS_TIME_MODE_HETEROGENEOUS == 0
IDS_TIME_MODE_HOMOGENEOUS == 1
IDS_TIME_MODE_INDEPENDENT == 2
IDS_TIME_MODES == {0, 1, 2}

\* self._idx: the pulse context the data store was opened with
Idx == 1
\* self._name / self.path / getRelCTXPath(self._idx) of the top-level
Name == "ids"
\* self._version and self._parent._imas_version: the schema the tree is built on
Version == "3.38.1"
\* another schema version: one a caller may declare, data may have been
\* written with, or the schema file at backend_xml_path carries
OtherVersion == "3.30.0"
\* context_store[self._idx]
RootPath == <<"/">>

\* self._children of the top-level, in schema order
Children == <<"ids_properties", "time", "x", "aos">>
\* the primitives below the top-level in the order a structure walks them
Leaves == <<"ht", "dd", "lang", "time", "x">>

\* ------------------------------------------------------------------- trees
Element(v) == [v |-> v]

EmptyTree ==
    [ht |-> EMPTY_INT, dd |-> "", lang |-> "", time |-> <<>>,
     x |-> EMPTY_INT, aos |-> <<>>]

\* values a caller fills a scalar leaf with
LeafValues == {EMPTY_INT, 42}
\* values a caller may have put in ids_properties/homogeneous_time
TimeModeValues == IDS_TIME_MODES \cup {IDS_TIME_MODE_UNKNOWN, 3}
TimeVectors == {<<>>, <<10>>}

SeqsUpTo(S, n) == UNION {[1..m -> S] : m \in 0..n}

Trees ==
    {[ht |-> h, dd |-> "", lang |-> "", time |-> t, x |-> xv, aos |-> a] :
        h \in TimeModeValues, t \in TimeVectors, xv \in LeafValues,
        a \in SeqsUpTo({Element(v) : v \in LeafValues}, MaxLen)}

\* what a persistent backend may hold when the session starts: nothing, or a
\* tree written by an earlier session
StoredTrees ==
    {EmptyTree,
     [ht |-> IDS_TIME_MODE_INDEPENDENT, dd |-> Version, lang |-> "Python",
      time |-> <<>>, x |-> 42, aos |-> <<Element(42)>>]}

Range(s) == {s[j] : j \in 1..Len(s)}
Last(s) == s[Len(s)]
Remove(s, e) == SelectSeq(s, LAMBDA y : y # e)

VARIABLES
    ids,            \* the in-memory top-level the operations act on
    ref,            \* the tree kept by the caller when a fresh one is read
    storage,        \* backend: what is stored at the top-level's path
    cursor,         \* backend: position of the array-of-structures cursor
    open,           \* backend: handles begun and not yet ended, in begin order
    nextH,          \* backend: next handle to hand out
    faults,         \* number of non-zero statuses the backend has returned
    context_store,  \* the process-wide handle -> path map
    calls,          \* backend calls issued by the current operation
    pc,             \* position in the code; "idle" between operations
    op,             \* the top-level operation running (or run last)
    loc,            \* local variables of the running operation
    hist,           \* completed operations with their outcome
    pre,            \* ids, context_store, storage and open at the call
    backend_version,    \* self._backend_version ("" for None)
    backend_xml_path,   \* self._backend_xml_path is set
    backend_xml,        \* the calls of _read_backend_xml: version and xml_path
    arr,            \* self.value of an array of structures used on its own
    maxoccur,       \* self.metadata.maxoccur of that array; 0 when not set
    made,           \* number of element instances built so far
    last,           \* the last call on that array: arguments, array before, error
    digest,         \* the bytes calc_hash returned for ref and for ids
    data,           \* the bytes serialize returned for ids
    ids2,           \* the fresh top-level those bytes were deserialized into
    request,        \* the arguments of the tree_iter call running or run last
    frames,         \* the suspended _tree_iter generators, innermost last
    yielded,        \* the nodes that call has yielded so far
    used_dimensions,    \* ids2nc: dimension name -> size
    filled_data,        \* ids2nc: the filled leaves, by path and AoS index
    group,              \* ids2nc: the variables created in the netCDF group
    difference,         \* the arguments of idsdiffgen and what it yielded
    file,               \* a UALFile: its attributes now and before the last call
    pulse,              \* the pulse calls the UALFile has issued
    store,              \* backend: what is stored under each occurrence path
    addressed           \* the occurrence of the last call, the paths it handed
                        \* to the backend and the store before it

vars == <<ids, ref, storage, cursor, open, nextH, faults, context_store,
          calls, pc, op, loc, hist, pre,
          backend_version, backend_xml_path, backend_xml,
          arr, maxoccur, made, last,
          digest, data, ids2, request, frames, yielded,
          used_dimensions, filled_data, group,
          difference, file, pulse, store, addressed>>

backend == <<storage, cursor, open, nextH, faults>>

\* what the top-level knows of the schema the backend data is described by
descriptor == <<backend_version, backend_xml_path, backend_xml>>

\* the array of structures used on its own
array == <<arr, maxoccur, made, last>>

\* the state of a tree_iter generator
walk == <<request, frames, yielded>>

\* what the first loop of ids2nc has collected, and the group it has filled
nc == <<used_dimensions, filled_data, group>>

\* what calc_hash, serialize, deserialize, tree_iter and ids2nc returned last
\* what idsdiffgen returned last, the UALFile with its pulse calls, and the
\* occurrences stored
more == <<difference, file, pulse, store, addressed>>

results == <<digest, data, ids2, walk, nc, more>>

NoCall ==
    [op |-> "none", nbelt |-> 0, keep |-> FALSE, elements |-> <<>>,
     was |-> <<>>, err |-> "none"]

NoFrame ==
    [ctx |-> 0, aosCtx |-> 0, size |-> 0, i |-> 0, k |-> 0,
     homogeneousTime |-> EMPTY_INT, backend_version |-> ""]

\* ids_toplevel.py 50-62 with 64-103: a top-level built with a backend version
\* or a backend xml path reads that schema; with a path alone the version is
\* taken from the file
Constructed(version, xml_path) ==
    /\ backend_version = IF xml_path /\ version = "" THEN OtherVersion ELSE version
    /\ backend_xml_path = xml_path
    /\ backend_xml = IF xml_path \/ version # ""
                     THEN <<[version |-> version, xml_path |-> xml_path]>>
                     ELSE <<>>

\* the session before the first operation
Started ==
    /\ cursor = 0
    /\ open = <<>>
    /\ nextH = Idx + 1
    /\ faults = 0
    /\ context_store = (Idx :> RootPath)
    /\ calls = <<>>
    /\ pc = "idle"
    /\ op = "none"
    /\ loc = NoFrame
    /\ hist = <<>>
    /\ pre = [ids |-> EmptyTree, context_store |-> (Idx :> RootPath),
              storage |-> EmptyTree, open |-> <<>>, fresh |-> FALSE,
              backend_xml |-> <<>>]

\* ids_struct_array.py 65-66: no array of structures is used on its own
Unused ==
    /\ arr = <<>>
    /\ maxoccur = 0
    /\ made = 0
    /\ last = NoCall

\* none of them has been called
NoDigest == [ref |-> <<>>, ids |-> <<>>]
NoGroup == [variables |-> <<>>, err |-> "none"]
NoOccurrence == [occurrence |-> 0, fresh |-> FALSE, paths |-> <<>>, was |-> <<>>]
NoFile == [attrs |-> <<>>, was |-> <<>>, key |-> ""]
NoDifference ==
    [version |-> "", name |-> "", node |-> <<"ids", 0>>, yielded |-> <<>>]
NoRequest ==
    [node |-> <<"ids", 0>>, leaf_only |-> TRUE, visit_empty |-> FALSE,
     include_node |-> FALSE]
Uncalled ==
    /\ digest = NoDigest
    /\ data = <<>>
    /\ ids2 = EmptyTree
    /\ request = NoRequest
    /\ frames = <<>>
    /\ yielded = <<>>
    /\ used_dimensions = <<>>
    /\ filled_data = <<>>
    /\ group = NoGroup
    /\ difference = NoDifference
    /\ file = NoFile
    /\ pulse = <<>>
    /\ store = <<>>
    /\ addressed = NoOccurrence

Init ==
    /\ ids \in Trees
    /\ ref = EmptyTree
    /\ storage \in StoredTrees
    /\ Constructed("", FALSE)
    /\ Started
    /\ Unused
    /\ Uncalled

\* ----------------------------------------------------------------- backend
\* The statuses the backend may answer a call on handle h with: anything on
\* a handle that is open (while the fault budget lasts), a failure on a
\* handle that is not.
Status(h) ==
    IF h = Idx \/ h \in Range(open)
    THEN IF faults < MaxFaults THEN {0, -1, 1} ELSE {0}
    ELSE {-1}

Counted(s) == IF s # 0 THEN faults + 1 ELSE faults

Call(f, h, by, s) == [f |-> f, h |-> h, by |-> by, ok |-> (s = 0)]

\* context_store[h] = path and context_store.pop(h)
SetCtx(cs, h, path) == [j \in DOMAIN cs \cup {h} |-> IF j = h THEN path ELSE cs[j]]
PopCtx(cs, h) == [j \in DOMAIN cs \ {h} |-> cs[j]]

\* ------------------------------------------------------- control transfer
\* The caller issues one operation after the other and stops at the first
\* exception (as the tests do).
EnterWith(o, fresh) ==
    /\ pc = "idle"
    /\ Len(hist) < MaxOps
    /\ \A j \in 1..Len(hist) : hist[j].res = "ok"
    /\ op' = o
    /\ calls' = <<>>
    /\ pre' = [ids |-> ids, context_store |-> context_store,
               storage |-> storage, open |-> open, fresh |-> fresh,
               backend_xml |-> backend_xml]

Enter(o) == EnterWith(o, FALSE)

Goto(label, frame) ==
    /\ pc' = label
    /\ loc' = frame
    /\ hist' = hist

\* a return or an exception that reaches the caller: nothing is cleaned up
Done(o, res) ==
    /\ pc' = "idle"
    /\ loc' = NoFrame
    /\ hist' = Append(hist, [op |-> o, res |-> res])

Finish(res) == Done(op, res)

\* the backend opens a context: a fresh handle on success, none on failure
Begun(s) == IF s = 0 THEN nextH ELSE 0
BeginEffect(s) ==
    /\ open' = IF s = 0 THEN Append(open, nextH) ELSE open
    /\ nextH' = IF s = 0 THEN nextH + 1 ELSE nextH
    /\ faults' = Counted(s)

\* the backend ends a context
EndEffect(h, s) ==
    /\ open' = Remove(open, h)
    /\ faults' = Counted(s)
    /\ UNCHANGED <<storage, cursor, nextH>>

\* ------------------------------------------------------------- deleteData
\* what ual_delete_data(ctx, child_name) / child.delete(ctx) leave stored
Deleted(st, child) ==
    CASE child = "ids_properties" ->
            [st EXCEPT !.ht = EMPTY_INT, !.dd = "", !.lang = ""]
      [] child = "time" -> [st EXCEPT !.time = <<>>]
      [] child = "x" -> [st EXCEPT !.x = EMPTY_INT]
      [] child = "aos" -> [st EXCEPT !.aos = <<>>]

deleteData ==
    /\ Enter("deleteData")
    /\ Goto("deleteData_begin", NoFrame)
    /\ UNCHANGED <<ids, ref, backend, context_store>>
    /\ UNCHANGED <<descriptor, array, results>>

\* ids_toplevel.py 275-281: the map entry is written before the status is
\* looked at, and only a negative status raises
deleteData_begin ==
    /\ pc = "deleteData_begin"
    /\ \E s \in Status(Idx) :
        LET ctx == Begun(s) IN
        /\ BeginEffect(s)
        /\ calls' = Append(calls, Call("begin_global_action", ctx, "deleteData", s))
        /\ context_store' = SetCtx(context_store, ctx, context_store[Idx] \o <<Name>>)
        /\ IF s < 0
           THEN Finish("BackendError")
           ELSE Goto("deleteData_child", [loc EXCEPT !.ctx = ctx, !.k = 1])
    /\ UNCHANGED <<ids, ref, storage, cursor, op, pre>>
    /\ UNCHANGED <<descriptor, array, results>>

\* ids_toplevel.py 283-302: one delete per child, any non-zero status raises
deleteData_child ==
    /\ pc = "deleteData_child"
    /\ \E s \in Status(loc.ctx) :
        /\ storage' = IF s = 0 THEN Deleted(storage, Children[loc.k]) ELSE storage
        /\ faults' = Counted(s)
        /\ calls' = Append(calls, Call("delete_data", loc.ctx, "deleteData", s))
        /\ IF s # 0
           THEN Finish("BackendError")
           ELSE IF loc.k < Len(Children)
                THEN Goto("deleteData_child", [loc EXCEPT !.k = loc.k + 1])
                ELSE Goto("deleteData_end", loc)
    /\ UNCHANGED <<ids, ref, cursor, open, nextH, context_store, op, pre>>
    /\ UNCHANGED <<descriptor, array, results>>

\* deleteData returning without ending its context
deleteData_end_not_ended ==
    /\ pc = "deleteData_end"
    /\ context_store' = PopCtx(context_store, loc.ctx)
    /\ IF op = "put"
       THEN Goto("to_ualstore_begin", NoFrame)
       ELSE Finish("ok")
    /\ UNCHANGED <<ids, ref, backend, calls, op, pre>>
    /\ UNCHANGED <<descriptor, array, results>>

\* ids_toplevel.py 303-309; returning into to_ualstore (line 346) when the
\* delete was issued by a put
deleteData_end ==
    /\ pc = "deleteData_end"
    /\ \E s \in Status(loc.ctx) :
        /\ EndEffect(loc.ctx, s)
        /\ calls' = Append(calls, Call("end_action", loc.ctx, "deleteData", s))
        /\ context_store' = PopCtx(context_store, loc.ctx)
        /\ IF s < 0
           THEN Finish("BackendError")
           ELSE IF op = "put"
                THEN Goto("to_ualstore_begin", NoFrame)
                ELSE Finish("ok")
    /\ UNCHANGED <<ids, ref, op, pre>>
    /\ UNCHANGED <<descriptor, array, results>>

\* -------------------------------------------------------------------- put
\* to_ualstore without the check of the time vector
to_ualstore_check_no_time_check(t) ==
    IF t.ht = IDS_TIME_MODE_UNKNOWN THEN "return"
    ELSE IF t.ht \notin IDS_TIME_MODES THEN "InvalidTimeMode"
    ELSE "deleteData"

\* ids_toplevel.py 327-346: the checks of to_ualstore before anything is
\* sent to the backend
to_ualstore_check(t) ==
    IF t.ht = IDS_TIME_MODE_UNKNOWN THEN "return"
    ELSE IF t.ht \notin IDS_TIME_MODES THEN "InvalidTimeMode"
    ELSE IF t.ht = IDS_TIME_MODE_HOMOGENEOUS /\ Len(t.time) = 0 THEN "EmptyTimeBase"
    ELSE "deleteData"

\* ids_toplevel.py 378-387: version_put is filled in when no data store is
\* passed, then to_ualstore runs
\* put writing the schema version whatever the backend version is
stamp_schema(t, data_store_given) ==
    IF data_store_given THEN t
    ELSE [t EXCEPT !.dd = Version, !.lang = "Python"]

stamp(t, data_store_given) ==
    IF data_store_given THEN t
    ELSE [t EXCEPT !.dd = IF backend_version # "" THEN backend_version ELSE Version,
                   !.lang = "Python"]

put ==
    /\ Enter("put")
    /\ \E data_store_given \in BOOLEAN :
        LET t == stamp(ids, data_store_given)
            c == to_ualstore_check(t)
        IN  /\ ids' = t
            /\ CASE c = "return" -> Done("put", "ok")
                 [] c = "deleteData" -> Goto("deleteData_begin", NoFrame)
                 [] OTHER -> Done("put", c)
    /\ UNCHANGED <<ref, backend, context_store>>
    /\ UNCHANGED <<descriptor, array, results>>

\* ids_toplevel.py 348-357: begin the write action
to_ualstore_begin ==
    /\ pc = "to_ualstore_begin"
    /\ \E s \in Status(Idx) :
        LET ctx == Begun(s) IN
        /\ BeginEffect(s)
        /\ calls' = Append(calls, Call("begin_global_action", ctx, "to_ualstore", s))
        /\ IF s # 0
           THEN /\ Finish("BackendError")
                /\ context_store' = context_store
           ELSE /\ Goto("put_body", [loc EXCEPT !.ctx = ctx, !.k = 1,
                                       !.homogeneousTime = ids.ht])
                /\ context_store' = SetCtx(context_store, ctx, <<Name>>)
    /\ UNCHANGED <<ids, ref, storage, cursor, op, pre>>
    /\ UNCHANGED <<descriptor, array, results>>

\* child.put(ctx, homogeneousTime) of a primitive reached from the top-level
\* (ids_toplevel.py 358-363): one write call, a non-zero status is fatal
IDSStructure_put ==
    /\ pc = "put_body"
    /\ \E s \in Status(loc.ctx) :
        /\ storage' = IF s = 0
                      THEN [storage EXCEPT ![Leaves[loc.k]] = ids[Leaves[loc.k]]]
                      ELSE storage
        /\ faults' = Counted(s)
        /\ calls' = Append(calls, Call("write_data", loc.ctx, "IDSStructure.put", s))
        /\ IF s # 0
           THEN Finish("BackendError")
           ELSE IF loc.k < Len(Leaves)
                THEN Goto("put_body", [loc EXCEPT !.k = loc.k + 1])
                ELSE Goto("aos_put_begin", loc)
    /\ UNCHANGED <<ids, ref, cursor, open, nextH, context_store, op, pre>>
    /\ UNCHANGED <<descriptor, array, results>>

\* a freshly templated element
NewElement == Element(EMPTY_INT)

\* the size beginArrayAction hands back on a write: the declared length, or,
\* counted as a fault of the backend, a length one below or one above it
ReturnedSize(declared, s) ==
    IF s # 0 THEN {0}
    ELSE IF faults < MaxFaults
    THEN {n \in {declared - 1, declared, declared + 1} : n >= 0}
    ELSE {declared}

\* ids_struct_array.py 215-228: begin the array action with the in-memory
\* length; the loop of line 230 runs over the size the backend returns
IDSStructArray_put_begin ==
    /\ pc = "aos_put_begin"
    /\ \E s \in Status(loc.ctx) :
       \E size \in ReturnedSize(Len(ids.aos), s) :
        LET aosCtx == Begun(s) IN
        /\ open' = IF s = 0 THEN Append(open, nextH) ELSE open
        /\ nextH' = IF s = 0 THEN nextH + 1 ELSE nextH
        /\ faults' = IF s = 0 /\ size # Len(ids.aos) THEN faults + 1 ELSE Counted(s)
        /\ storage' = IF s = 0
                      THEN [storage EXCEPT !.aos = [j \in 1..Len(ids.aos) |-> NewElement]]
                      ELSE storage
        /\ cursor' = IF s = 0 THEN 0 ELSE cursor
        /\ calls' = Append(calls,
                Call("begin_arraystruct_action", aosCtx, "IDSStructArray.put", s))
        /\ IF s # 0 \/ aosCtx < 0
           THEN /\ Finish("BackendError")
                /\ context_store' = context_store
           ELSE /\ context_store' = SetCtx(context_store, aosCtx,
                        context_store[loc.ctx] \o <<"/", "aos", "/", ToString(0)>>)
                /\ Goto(IF size > 0 THEN "aos_put_elem" ELSE "aos_put_end",
                        [loc EXCEPT !.aosCtx = aosCtx, !.size = size, !.i = 0])
    /\ UNCHANGED <<ids, ref, op, pre>>
    /\ UNCHANGED <<descriptor, array, results>>

\* the loop body always writing the first element
IDSStructArray_put_elem_first ==
    /\ pc = "aos_put_elem"
    /\ context_store' = SetCtx(context_store, loc.aosCtx,
            context_store[loc.ctx] \o <<"/", "aos", "/", ToString(loc.i + 1)>>)
    /\ IF loc.i + 1 > Len(ids.aos)
       THEN /\ Finish("IndexError")
            /\ UNCHANGED <<storage, faults, calls>>
       ELSE \E s \in Status(loc.aosCtx) :
            /\ storage' = IF s = 0 /\ cursor + 1 \in 1..Len(storage.aos)
                          THEN [storage EXCEPT !.aos[cursor + 1] = ids.aos[1]]
                          ELSE storage
            /\ faults' = Counted(s)
            /\ calls' = Append(calls,
                    Call("write_data", loc.aosCtx, "IDSStructArray.put", s))
            /\ IF s # 0
               THEN Finish("BackendError")
               ELSE Goto("aos_put_iter", loc)
    /\ UNCHANGED <<ids, ref, cursor, open, nextH, op, pre>>
    /\ UNCHANGED <<descriptor, array, results>>

\* ids_struct_array.py 231-237: the body of element i; self.value[i] raises
\* IndexError past the end of the list
IDSStructArray_put_elem ==
    /\ pc = "aos_put_elem"
    /\ context_store' = SetCtx(context_store, loc.aosCtx,
            context_store[loc.ctx] \o <<"/", "aos", "/", ToString(loc.i + 1)>>)
    /\ IF loc.i + 1 > Len(ids.aos)
       THEN /\ Finish("IndexError")
            /\ UNCHANGED <<storage, faults, calls>>
       ELSE \E s \in Status(loc.aosCtx) :
            /\ storage' = IF s = 0 /\ cursor + 1 \in 1..Len(storage.aos)
                          THEN [storage EXCEPT !.aos[cursor + 1] = ids.aos[loc.i + 1]]
                          ELSE storage
            /\ faults' = Counted(s)
            /\ calls' = Append(calls,
                    Call("write_data", loc.aosCtx, "IDSStructArray.put", s))
            /\ IF s # 0
               THEN Finish("BackendError")
               ELSE Goto("aos_put_iter", loc)
    /\ UNCHANGED <<ids, ref, cursor, open, nextH, op, pre>>
    /\ UNCHANGED <<descriptor, array, results>>

\* ids_struct_array.py 238-245
IDSStructArray_put_iter ==
    /\ pc = "aos_put_iter"
    /\ \E s \in Status(loc.aosCtx) :
        /\ cursor' = IF s = 0 THEN cursor + 1 ELSE cursor
        /\ faults' = Counted(s)
        /\ calls' = Append(calls,
                Call("iterate_over_arraystruct", loc.aosCtx, "IDSStructArray.put", s))
        /\ IF s # 0
           THEN Finish("BackendError")
           ELSE IF loc.i + 1 < loc.size
                THEN Goto("aos_put_elem", [loc EXCEPT !.i = loc.i + 1])
                ELSE Goto("aos_put_end", loc)
    /\ UNCHANGED <<ids, ref, storage, open, nextH, context_store, op, pre>>
    /\ UNCHANGED <<descriptor, array, results>>

\* ids_struct_array.py 247-252
IDSStructArray_put_end ==
    /\ pc = "aos_put_end"
    /\ \E s \in Status(loc.aosCtx) :
        /\ EndEffect(loc.aosCtx, s)
        /\ calls' = Append(calls, Call("end_action", loc.aosCtx, "IDSStructArray.put", s))
        /\ context_store' = PopCtx(context_store, loc.aosCtx)
        /\ IF s # 0
           THEN Finish("BackendError")
           ELSE Goto("to_ualstore_end", loc)
    /\ UNCHANGED <<ids, ref, op, pre>>
    /\ UNCHANGED <<descriptor, array, results>>

\* ids_toplevel.py 365-370
to_ualstore_end ==
    /\ pc = "to_ualstore_end"
    /\ \E s \in Status(loc.ctx) :
        /\ EndEffect(loc.ctx, s)
        /\ calls' = Append(calls, Call("end_action", loc.ctx, "to_ualstore", s))
        /\ context_store' = PopCtx(context_store, loc.ctx)
        /\ IF s # 0
           THEN Finish("BackendError")
           ELSE Finish("ok")
    /\ UNCHANGED <<ids, ref, op, pre>>
    /\ UNCHANGED <<descriptor, array, results>>

\* -------------------------------------------------------------------- get
\* e._parent = self, for the elements whose parent is kept track of
Adopted(e) == IF "parent" \in DOMAIN e THEN [e EXCEPT !.parent = "self"] ELSE e

\* append adding every element without looking at the maximum-occurrence
append_unchecked(value, elements, m) ==
    [err |-> "none",
     value |-> value \o [j \in 1..Len(elements) |-> Adopted(elements[j])]]

\* ids_struct_array.py 100-128: the elements are added one by one; the first
\* that finds the array at its maximum-occurrence m (0: not set) raises
RECURSIVE append(_, _, _)
append(value, elements, m) ==
    IF elements = <<>>
    THEN [err |-> "none", value |-> value]
    ELSE IF m # 0 /\ Len(value) >= m
    THEN [err |-> "RuntimeError", value |-> value]
    ELSE append(Append(value, Adopted(Head(elements))), Tail(elements), m)

\* resize rebuilding every element also when asked to keep them
resize_discards(value, nbelt, keep, m, pool) ==
    IF nbelt > 0
    THEN append(<<>>, SubSeq(pool, 1, nbelt), m)
    ELSE IF keep /\ Len(value) = 0
    THEN [err |-> "none", value |-> <<>>]
    ELSE [err |-> "NotImplementedError", value |-> <<>>]

\* resize dropping the elements past nbelt before it raises
resize_shrinks(value, nbelt, keep, m, pool) ==
    LET kept == IF keep THEN value ELSE <<>>
        cur == Len(kept)
    IN  IF nbelt > cur
        THEN append(kept, SubSeq(pool, 1, nbelt - cur), m)
        ELSE IF nbelt < cur
        THEN [err |-> "NotImplementedError", value |-> SubSeq(kept, 1, nbelt)]
        ELSE IF ~keep
        THEN [err |-> "NotImplementedError", value |-> kept]
        ELSE [err |-> "none", value |-> kept]

\* ids_struct_array.py 130-163; pool holds the instances _element_structure
\* hands out, m is the maximum-occurrence (0: not set)
resize(value, nbelt, keep, m, pool) ==
    LET kept == IF keep THEN value ELSE <<>>
        cur == Len(kept)
    IN  IF nbelt > cur
        THEN append(kept, SubSeq(pool, 1, nbelt - cur), m)
        ELSE IF nbelt < cur
        THEN [err |-> "NotImplementedError", value |-> kept]
        ELSE IF ~keep
        THEN [err |-> "NotImplementedError", value |-> kept]
        ELSE [err |-> "none", value |-> kept]

\* ids_toplevel.py 211-218: after readHomogeneous
\* get going on whatever the time mode is
AfterReadHomogeneous_any(homogeneousTime) ==
    Goto("read_data_dictionary_version_begin",
         [NoFrame EXCEPT !.homogeneousTime = homogeneousTime])

\* ids_toplevel.py 211-216
AfterReadHomogeneous(homogeneousTime) ==
    IF homogeneousTime \notin IDS_TIME_MODES
    THEN Done("get", "ok")
    ELSE Goto("read_data_dictionary_version_begin",
              [NoFrame EXCEPT !.homogeneousTime = homogeneousTime])

\* ids_toplevel.py 198-211 and 134-143; with fresh, the caller reads into a
\* newly built tree and keeps the old one for comparison
get ==
    /\ \E fresh \in BOOLEAN :
        /\ EnterWith("get", fresh)
        /\ ids' = IF fresh THEN EmptyTree ELSE ids
        /\ ref' = IF fresh THEN ids ELSE ref
        /\ IF ids'.ht = EMPTY_INT
           THEN Goto("readHomogeneous_begin", NoFrame)
           ELSE AfterReadHomogeneous(ids'.ht)
    /\ UNCHANGED <<backend, context_store>>
    /\ UNCHANGED <<descriptor, array, results>>

\* ids_toplevel.py 144-151
readHomogeneous_begin ==
    /\ pc = "readHomogeneous_begin"
    /\ \E s \in Status(Idx) :
        LET ctx == Begun(s) IN
        /\ BeginEffect(s)
        /\ calls' = Append(calls, Call("begin_global_action", ctx, "readHomogeneous", s))
        /\ context_store' = SetCtx(context_store, ctx,
                                   context_store[Idx] \o <<"/", Name>>)
        /\ IF s # 0
           THEN Finish("BackendError")
           ELSE Goto("readHomogeneous_read", [loc EXCEPT !.ctx = ctx])
    /\ UNCHANGED <<ids, ref, storage, cursor, op, pre>>
    /\ UNCHANGED <<descriptor, array, results>>

\* ids_toplevel.py 153-158
readHomogeneous_read ==
    /\ pc = "readHomogeneous_read"
    /\ \E s \in Status(loc.ctx) :
        /\ faults' = Counted(s)
        /\ calls' = Append(calls, Call("read_data", loc.ctx, "readHomogeneous", s))
        /\ IF s # 0
           THEN Finish("BackendError")
           ELSE Goto("readHomogeneous_end", [loc EXCEPT !.homogeneousTime = storage.ht])
    /\ UNCHANGED <<ids, ref, storage, cursor, open, nextH, context_store, op, pre>>
    /\ UNCHANGED <<descriptor, array, results>>

\* ids_toplevel.py 160-168
readHomogeneous_end ==
    /\ pc = "readHomogeneous_end"
    /\ \E s \in Status(loc.ctx) :
        /\ EndEffect(loc.ctx, s)
        /\ calls' = Append(calls, Call("end_action", loc.ctx, "readHomogeneous", s))
        /\ context_store' = PopCtx(context_store, loc.ctx)
        /\ IF s # 0
           THEN Finish("BackendError")
           ELSE AfterReadHomogeneous(loc.homogeneousTime)
    /\ UNCHANGED <<ids, ref, op, pre>>
    /\ UNCHANGED <<descriptor, array, results>>

\* ids_toplevel.py 176-182
read_data_dictionary_version_begin ==
    /\ pc = "read_data_dictionary_version_begin"
    /\ \E s \in Status(Idx) :
        LET ctx == Begun(s) IN
        /\ BeginEffect(s)
        /\ calls' = Append(calls,
                Call("begin_global_action", ctx, "read_data_dictionary_version", s))
        /\ context_store' = SetCtx(context_store, ctx,
                                   context_store[Idx] \o <<"/", Name>>)
        /\ IF s # 0
           THEN Finish("BackendError")
           ELSE Goto("read_data_dictionary_version_read", [loc EXCEPT !.ctx = ctx])
    /\ UNCHANGED <<ids, ref, storage, cursor, op, pre>>
    /\ UNCHANGED <<descriptor, array, results>>

\* ids_toplevel.py 184-188
read_data_dictionary_version_read ==
    /\ pc = "read_data_dictionary_version_read"
    /\ \E s \in Status(loc.ctx) :
        /\ faults' = Counted(s)
        /\ calls' = Append(calls,
                Call("read_data", loc.ctx, "read_data_dictionary_version", s))
        /\ IF s # 0
           THEN Finish("BackendError")
           ELSE Goto("read_data_dictionary_version_end",
                     [loc EXCEPT !.backend_version = storage.dd])
    /\ UNCHANGED <<ids, ref, storage, cursor, open, nextH, context_store, op, pre>>
    /\ UNCHANGED <<descriptor, array, results>>

\* ids_toplevel.py 189-196
read_data_dictionary_version_end ==
    /\ pc = "read_data_dictionary_version_end"
    /\ \E s \in Status(loc.ctx) :
        /\ EndEffect(loc.ctx, s)
        /\ calls' = Append(calls,
                Call("end_action", loc.ctx, "read_data_dictionary_version", s))
        /\ context_store' = PopCtx(context_store, loc.ctx)
        /\ IF s # 0
           THEN Finish("BackendError")
           ELSE Goto("get_version", [loc EXCEPT !.ctx = 0])
    /\ UNCHANGED <<ids, ref, op, pre>>
    /\ UNCHANGED <<descriptor, array, results>>

\* ids_toplevel.py 219-232: the version the backend data is taken to be
\* written with, given the version tag read; a version the caller declared
\* replaces the tag
selected_version(stored) ==
    IF backend_xml_path THEN stored
    ELSE IF backend_version # "" /\ stored # backend_version THEN backend_version
    ELSE stored

\* ids_toplevel.py 235-237
needs_backend_xml(version) ==
    backend_xml_path \/ (version # "" /\ version # Version)

\* ids_toplevel.py 218-240, with _read_backend_xml (72-77) keeping the version
\* it is given when no path is
get_version ==
    /\ pc = "get_version"
    /\ LET version == selected_version(loc.backend_version) IN
        /\ IF needs_backend_xml(version)
           THEN /\ backend_xml' = Append(backend_xml,
                        [version |-> version, xml_path |-> backend_xml_path])
                /\ backend_version' = IF backend_xml_path THEN backend_version
                                      ELSE version
           ELSE UNCHANGED <<backend_version, backend_xml>>
        /\ Goto("get_begin", [loc EXCEPT !.backend_version = version])
    /\ UNCHANGED <<ids, ref, backend, context_store, calls, op, pre, backend_xml_path>>
    /\ UNCHANGED <<array, results>>

\* ids_toplevel.py 243-252
get_begin ==
    /\ pc = "get_begin"
    /\ \E s \in Status(Idx) :
        LET ctx == Begun(s) IN
        /\ BeginEffect(s)
        /\ calls' = Append(calls, Call("begin_global_action", ctx, "get", s))
        /\ IF s # 0
           THEN /\ Finish("BackendError")
                /\ context_store' = context_store
           ELSE /\ Goto("get_body", [loc EXCEPT !.ctx = ctx, !.k = 1])
                /\ context_store' = SetCtx(context_store, ctx,
                                           context_store[Idx] \o <<Name>>)
    /\ UNCHANGED <<ids, ref, storage, cursor, op, pre>>
    /\ UNCHANGED <<descriptor, array, results>>

\* super().get(ctx, homogeneousTime) on the primitives reached from the
\* top-level (ids_toplevel.py 252): one read call, a non-zero status is fatal
IDSStructure_get ==
    /\ pc = "get_body"
    /\ \E s \in Status(loc.ctx) :
        /\ ids' = IF s = 0
                  THEN [ids EXCEPT ![Leaves[loc.k]] = storage[Leaves[loc.k]]]
                  ELSE ids
        /\ faults' = Counted(s)
        /\ calls' = Append(calls, Call("read_data", loc.ctx, "IDSStructure.get", s))
        /\ IF s # 0
           THEN Finish("BackendError")
           ELSE IF loc.k < Len(Leaves)
                THEN Goto("get_body", [loc EXCEPT !.k = loc.k + 1])
                ELSE Goto("aos_get_begin", loc)
    /\ UNCHANGED <<ref, storage, cursor, open, nextH, context_store, op, pre>>
    /\ UNCHANGED <<descriptor, array, results>>

\* ids_struct_array.py 180-197. On a read the backend reports the stored
\* size; for a stored size of 0 it may or may not hand out a handle.
IDSStructArray_get_begin ==
    /\ pc = "aos_get_begin"
    /\ \E s \in Status(loc.ctx) :
       \E aosCtx \in IF s # 0 THEN {0}
                     ELSE IF Len(storage.aos) = 0 THEN {0, nextH} ELSE {nextH} :
        LET size == IF s = 0 THEN Len(storage.aos) ELSE 0
            r == resize(ids.aos, size, FALSE, 0, [j \in 1..size |-> NewElement])
        IN
        /\ open' = IF aosCtx > 0 THEN Append(open, aosCtx) ELSE open
        /\ nextH' = IF aosCtx > 0 THEN nextH + 1 ELSE nextH
        /\ faults' = Counted(s)
        /\ cursor' = IF s = 0 THEN 0 ELSE cursor
        /\ calls' = Append(calls,
                Call("begin_arraystruct_action", aosCtx, "IDSStructArray.get", s))
        /\ IF s < 0
           THEN /\ Finish("BackendError")
                /\ UNCHANGED <<ids, context_store>>
           ELSE IF size < 1
           THEN /\ Goto("get_end", loc)
                /\ UNCHANGED <<ids, context_store>>
           ELSE /\ context_store' =
                      IF aosCtx > 0
                      THEN SetCtx(context_store, aosCtx,
                              context_store[loc.ctx] \o <<"/", "aos", "/", ToString(1)>>)
                      ELSE context_store
                /\ ids' = [ids EXCEPT !.aos = r.value]
                /\ IF r.err # "none"
                   THEN Finish(r.err)
                   ELSE Goto("aos_get_elem",
                             [loc EXCEPT !.aosCtx = aosCtx, !.size = size, !.i = 0])
    /\ UNCHANGED <<ref, storage, op, pre>>
    /\ UNCHANGED <<descriptor, array, results>>

\* ids_struct_array.py 198-202: the body of element i
IDSStructArray_get_elem ==
    /\ pc = "aos_get_elem"
    /\ \E s \in Status(loc.aosCtx) :
        /\ ids' = IF s = 0
                  THEN [ids EXCEPT !.aos[loc.i + 1] = storage.aos[cursor + 1]]
                  ELSE ids
        /\ faults' = Counted(s)
        /\ calls' = Append(calls, Call("read_data", loc.aosCtx, "IDSStructArray.get", s))
        /\ context_store' = SetCtx(context_store, loc.aosCtx,
                context_store[loc.ctx] \o <<"/", "aos", "/", ToString(loc.i + 1)>>)
        /\ IF s # 0
           THEN Finish("BackendError")
           ELSE Goto("aos_get_iter", loc)
    /\ UNCHANGED <<ref, storage, cursor, open, nextH, op, pre>>
    /\ UNCHANGED <<descriptor, array, results>>

\* ids_struct_array.py 203: the status is dropped
IDSStructArray_get_iter ==
    /\ pc = "aos_get_iter"
    /\ \E s \in Status(loc.aosCtx) :
        /\ cursor' = IF s = 0 THEN cursor + 1 ELSE cursor
        /\ faults' = Counted(s)
        /\ calls' = Append(calls,
                Call("iterate_over_arraystruct", loc.aosCtx, "IDSStructArray.get", s))
        /\ IF loc.i + 1 < loc.size
           THEN Goto("aos_get_elem", [loc EXCEPT !.i = loc.i + 1])
           ELSE Goto("aos_get_end", loc)
    /\ UNCHANGED <<ids, ref, storage, open, nextH, context_store, op, pre>>
    /\ UNCHANGED <<descriptor, array, results>>

\* ids_struct_array.py 205-207: the status is dropped
IDSStructArray_get_end ==
    /\ pc = "aos_get_end"
    /\ IF loc.aosCtx > 0
       THEN \E s \in Status(loc.aosCtx) :
            /\ EndEffect(loc.aosCtx, s)
            /\ calls' = Append(calls,
                    Call("end_action", loc.aosCtx, "IDSStructArray.get", s))
            /\ context_store' = PopCtx(context_store, loc.aosCtx)
       ELSE UNCHANGED <<backend, calls, context_store>>
    /\ Goto("get_end", loc)
    /\ UNCHANGED <<ids, ref, op, pre>>
    /\ UNCHANGED <<descriptor, array, results>>

\* get ending its context without removing the map entry
get_end_entry_kept ==
    /\ pc = "get_end"
    /\ \E s \in Status(loc.ctx) :
        /\ EndEffect(loc.ctx, s)
        /\ calls' = Append(calls, Call("end_action", loc.ctx, "get", s))
        /\ context_store' = context_store
        /\ IF s # 0
           THEN Finish("BackendError")
           ELSE Finish("ok")
    /\ UNCHANGED <<ids, ref, op, pre>>
    /\ UNCHANGED <<descriptor, array, results>>

\* ids_toplevel.py 254-259
get_end ==
    /\ pc = "get_end"
    /\ \E s \in Status(loc.ctx) :
        /\ EndEffect(loc.ctx, s)
        /\ calls' = Append(calls, Call("end_action", loc.ctx, "get", s))
        /\ context_store' = PopCtx(context_store, loc.ctx)
        /\ IF s # 0
           THEN Finish("BackendError")
           ELSE Finish("ok")
    /\ UNCHANGED <<ids, ref, op, pre>>
    /\ UNCHANGED <<descriptor, array, results>>

\* ids_toplevel.py 141-143 with 168: the value of
\* ids_properties.homogeneous_time the top-level had when get was called
LocalTimeMode == IF pre.fresh THEN EMPTY_INT ELSE pre.ids.ht

\* ids_toplevel.py 141, 168, 211 and 252: readHomogeneous returns the node
\* ids_properties.homogeneous_time itself when it is set locally, the integer
\* read otherwise; get hands what it got to the children, and a node shows
\* the value it holds when it is looked at
TimeModeSeen ==
    IF LocalTimeMode # EMPTY_INT THEN ids.ht ELSE loc.homogeneousTime

\* ---------------------------------------------------------- specification
Next ==
    \/ put
    \/ deleteData
    \/ deleteData_begin
    \/ deleteData_child
    \/ deleteData_end
    \/ to_ualstore_begin
    \/ IDSStructure_put
    \/ IDSStructArray_put_begin
    \/ IDSStructArray_put_elem
    \/ IDSStructArray_put_iter
    \/ IDSStructArray_put_end
    \/ to_ualstore_end
    \/ get
    \/ readHomogeneous_begin
    \/ readHomogeneous_read
    \/ readHomogeneous_end
    \/ read_data_dictionary_version_begin
    \/ read_data_dictionary_version_read
    \/ read_data_dictionary_version_end
    \/ get_version
    \/ get_begin
    \/ IDSStructure_get
    \/ IDSStructArray_get_begin
    \/ IDSStructArray_get_elem
    \/ IDSStructArray_get_iter
    \/ IDSStructArray_get_end
    \/ get_end

Spec == Init /\ [][Next]_vars

\* ------------------------------------------- get with a declared backend
\* the versions a caller may declare; "" for none
DeclaredVersions == {"", Version, OtherVersion}

\* stored data written under Version, under OtherVersion, or without a tag
StoredVersions ==
    {[ht |-> IDS_TIME_MODE_INDEPENDENT, dd |-> v, lang |-> "Python",
      time |-> <<>>, x |-> 42, aos |-> <<Element(42)>>] : v \in DeclaredVersions}

InitVersion ==
    /\ ids \in {EmptyTree, [EmptyTree EXCEPT !.ht = IDS_TIME_MODE_HOMOGENEOUS]}
    /\ ref = EmptyTree
    /\ storage \in StoredVersions \cup {EmptyTree}
    /\ \E version \in DeclaredVersions, xml_path \in BOOLEAN :
          Constructed(version, xml_path)
    /\ Started
    /\ Unused
    /\ Uncalled

NextVersion ==
    \/ get
    \/ readHomogeneous_begin
    \/ readHomogeneous_read
    \/ readHomogeneous_end
    \/ read_data_dictionary_version_begin
    \/ read_data_dictionary_version_read
    \/ read_data_dictionary_version_end
    \/ get_version
    \/ get_begin
    \/ IDSStructure_get
    \/ IDSStructArray_get_begin
    \/ IDSStructArray_get_elem
    \/ IDSStructArray_get_iter
    \/ IDSStructArray_get_end
    \/ get_end

SpecVersion == InitVersion /\ [][NextVersion]_vars

\* --------------------------------- put with and without a backend version
\* the trees a top-level built with a backend version or a backend xml path
\* is filled with before its first put, on a backend that holds nothing yet
StampTrees ==
    {[EmptyTree EXCEPT !.ht = h, !.x = xv, !.aos = a] :
        h \in {IDS_TIME_MODE_INDEPENDENT, IDS_TIME_MODE_UNKNOWN},
        xv \in LeafValues, a \in {<<>>, <<Element(42)>>}}

InitStamp ==
    /\ ids \in StampTrees
    /\ ref = EmptyTree
    /\ storage = EmptyTree
    /\ \E version \in DeclaredVersions, xml_path \in BOOLEAN :
        Constructed(version, xml_path)
    /\ Started
    /\ Unused
    /\ Uncalled

SpecStamp == InitStamp /\ [][Next]_vars

\* --------------------------------------- an array of structures on its own
\* an element instance: its identity, the scalar it holds, its _parent
Instance(id, v, parent) == [id |-> id, v |-> v, parent |-> parent]

\* n instances handed out by _element_structure (ids_struct_array.py 70-74,
\* 147-149): new, empty, the array as parent
Templated(n) == [j \in 1..n |-> Instance(made + j, EMPTY_INT, "self")]

\* the arrays a caller may have built by append and by filling the elements
\* in, when the maximum-occurrence is m
BuiltArrays(m) ==
    UNION {[1..n -> LeafValues] : n \in 0..(IF m = 0 THEN MaxLen ELSE m)}

InitArray ==
    /\ ids = EmptyTree
    /\ ref = EmptyTree
    /\ storage = EmptyTree
    /\ Constructed("", FALSE)
    /\ Started
    /\ maxoccur \in 0..MaxLen
    /\ \E vs \in BuiltArrays(maxoccur) :
        /\ arr = [j \in 1..Len(vs) |-> Instance(j, vs[j], "self")]
        /\ made = Len(vs)
    /\ last = NoCall
    /\ Uncalled

\* the caller is between two operations
Callable == pc = "idle" /\ Len(hist) < MaxOps

\* a call on the array returns or raises
Called(o, nbelt, keep, elements, r, built) ==
    /\ arr' = r.value
    /\ made' = made + built
    /\ last' = [op |-> o, nbelt |-> nbelt, keep |-> keep, elements |-> elements,
                was |-> arr, err |-> r.err]
    /\ hist' = Append(hist, [op |-> o, res |-> IF r.err = "none" THEN "ok" ELSE r.err])
    /\ UNCHANGED <<ids, ref, backend, context_store, calls, pc, op, loc, pre,
                   descriptor, maxoccur, results>>

\* the lists of n positions a caller passes to append: n instances, or one
\* instance n times ([e] * n, test_helpers.py 61)
Lists(n) == {[j \in 1..n |-> j], [j \in 1..n |-> 1]}

\* ids_struct_array.py 100-128: append(elt) with one element or a list of
\* elements the caller has built
IDSStructArray_append ==
    /\ Callable
    /\ \E n \in 1..MaxLen : \E vs \in [1..n -> LeafValues], ks \in Lists(n) :
        LET elements == [j \in 1..n |-> Instance(made + ks[j], vs[ks[j]], "none")] IN
        Called("append", 0, FALSE, elements, append(arr, elements, maxoccur), n)

\* ids_struct_array.py 130-163
IDSStructArray_resize ==
    /\ Callable
    /\ \E nbelt \in 0..(MaxLen + 1), keep \in BOOLEAN :
        Called("resize", nbelt, keep, <<>>,
               resize(arr, nbelt, keep, maxoccur, Templated(nbelt)), nbelt)

\* ids_struct_array.py 87-95: self.value[list_idx] = value, with an index from
\* 0; the test of line 92 looks for the index among the elements and finds none
IDSStructArray_setitem ==
    /\ Callable
    /\ \E item \in 0..Len(arr), v \in LeafValues :
        LET value == Instance(made + 1, v, "none") IN
        Called("setitem", item, FALSE, <<value>>,
               IF item < Len(arr)
               THEN [err |-> "none", value |-> [arr EXCEPT ![item + 1] = value]]
               ELSE [err |-> "IndexError", value |-> arr],
               1)

\* ids_struct_array.py 174-207 on a backend that answers every call with
\* status 0 and reports size elements, each holding 42
IDSStructArray_get ==
    /\ Callable
    /\ \E size \in 0..(MaxLen + 1) :
        LET r == resize(arr, size, FALSE, maxoccur, Templated(size)) IN
        Called("get", size, FALSE, <<>>,
               IF size < 1 THEN [err |-> "none", value |-> arr]
               ELSE IF r.err # "none" THEN r
               ELSE [err |-> "none",
                     value |-> [j \in 1..Len(r.value) |-> [r.value[j] EXCEPT !.v = 42]]],
               IF size < 1 THEN 0 ELSE size)

NextArray ==
    \/ IDSStructArray_append
    \/ IDSStructArray_resize
    \/ IDSStructArray_setitem
    \/ IDSStructArray_get

SpecArray == InitArray /\ [][NextArray]_vars

TypeOK ==
    /\ pc \in STRING
    /\ Len(hist) <= MaxOps
    /\ faults >= 0

\* ------------------------------------------------------------------- hash
\* util.py 337-399. xxh3_64 is taken to be collision-free: the hash of a byte
\* string is the string itself, framed by its length so that concatenated
\* hashes stay apart. Names and values are one "byte" each.
xxh3_64(bytes) == <<Len(bytes)>> \o bytes

NameBytes(name) ==
    CASE name = "aos" -> <<101>>
      [] name = "homogeneous_time" -> <<102>>
      [] name = "ids_properties" -> <<103>>
      [] name = "time" -> <<104>>
      [] name = "v" -> <<105>>
      [] name = "x" -> <<106>>

RECURSIVE Concat(_)
Concat(ss) == IF ss = <<>> THEN <<>> ELSE Head(ss) \o Concat(Tail(ss))

\* 1.c INT_0D and 1.f ND arrays (dimension, shape, data)
hash_INT_0D(v) == xxh3_64(<<v>>)
hash_1D(a) == xxh3_64(<<1, Len(a)>> \o a)

\* 3. a structure: children sorted by name, empty ones removed
Pair(name, empty, h) == IF empty THEN <<>> ELSE NameBytes(name) \o h

\* the hash of a structure that leaves the value of its child out
hash_element_blind(e) ==
    xxh3_64(Pair("v", e.v = EMPTY_INT, hash_INT_0D(0)))

hash_element(e) ==
    xxh3_64(Pair("v", e.v = EMPTY_INT, hash_INT_0D(e.v)))

\* 2. an array of structures: length, then the hash of each element
hash_aos(a) ==
    xxh3_64(<<Len(a)>> \o Concat([j \in 1..Len(a) |-> hash_element(a[j])]))

\* ids_properties: version_put is removed after the empty children are
hash_ids_properties(t) ==
    xxh3_64(Pair("homogeneous_time", t.ht = EMPTY_INT, hash_INT_0D(t.ht)))

ids_properties_empty(t) == t.ht = EMPTY_INT /\ t.dd = "" /\ t.lang = ""

\* the hash that keeps every child the caller has set, empty or not
calc_hash_set(t) ==
    xxh3_64(  Pair("aos", Len(t.aos) = 0 /\ <<"aos", 0>> \notin t.touched,
                   hash_aos(t.aos))
           \o Pair("ids_properties", ids_properties_empty(t), hash_ids_properties(t))
           \o Pair("time", Len(t.time) = 0 /\ <<"time", 0>> \notin t.touched,
                   hash_1D(t.time))
           \o Pair("x", t.x = EMPTY_INT /\ <<"x", 0>> \notin t.touched,
                   hash_INT_0D(t.x)))

calc_hash(t) ==
    xxh3_64(  Pair("aos", Len(t.aos) = 0, hash_aos(t.aos))
           \o Pair("ids_properties", ids_properties_empty(t), hash_ids_properties(t))
           \o Pair("time", Len(t.time) = 0, hash_1D(t.time))
           \o Pair("x", t.x = EMPTY_INT, hash_INT_0D(t.x)))

\* ------------------------------------------------- calc_hash on two trees
\* ref is a tree T a caller has filled, ids the tree T' the caller gets from
\* it by further assignments; `touched` holds the nodes assigned so far. A
\* node is named by its field and, for the child of an element, the position
\* of the element (0 otherwise).
HashValues == {EMPTY_INT, 42, 43}
HashTimeModes == {EMPTY_INT, IDS_TIME_MODE_HOMOGENEOUS, IDS_TIME_MODE_INDEPENDENT}
HashTimeVectors == {<<>>, <<10>>, <<11>>}
HashVersions == {"", Version, OtherVersion}
HashLanguages == {"", "Python"}

HashTrees ==
    {[ht |-> h, dd |-> d, lang |-> "", time |-> t, x |-> xv, aos |-> a,
      touched |-> {}] :
        h \in {EMPTY_INT, IDS_TIME_MODE_HOMOGENEOUS}, d \in {"", Version},
        t \in TimeVectors, xv \in HashValues,
        a \in SeqsUpTo({Element(v) : v \in HashValues}, MaxLen)}

NodesOf(t) ==
    {<<n, 0>> : n \in {"ht", "dd", "lang", "time", "x", "aos"}}
        \cup {<<"v", j>> : j \in 1..Len(t.aos)}

ValueAt(t, node) ==
    IF node[1] = "v" THEN t.aos[node[2]].v ELSE t[node[1]]

\* the empty value of the type of a node (util.py 373-379)
EmptyOf(node) ==
    CASE node[1] \in {"ht", "x", "v"} -> EMPTY_INT
      [] node[1] \in {"dd", "lang"} -> ""
      [] node[1] \in {"time", "aos"} -> <<>>

\* the values a caller gives a node of that type
ValuesOf(node) ==
    CASE node[1] = "ht" -> HashTimeModes
      [] node[1] \in {"x", "v"} -> HashValues
      [] node[1] = "dd" -> HashVersions
      [] node[1] = "lang" -> HashLanguages
      [] node[1] = "time" -> HashTimeVectors
      [] node[1] = "aos" -> {<<>>}

\* node.value = v
Put(t, node, v) ==
    IF node[1] = "v"
    THEN [t EXCEPT !.aos[node[2]].v = v]
    ELSE [t EXCEPT ![node[1]] = v]

Assign(t, node, v) == [Put(t, node, v) EXCEPT !.touched = @ \cup {node}]

InitHash ==
    /\ ref \in HashTrees
    /\ ids = ref
    /\ storage = EmptyTree
    /\ Constructed("", FALSE)
    /\ Started
    /\ Unused
    /\ Uncalled

\* the caller has changed ids to t and calls calc_hash on both trees
Hashed(o, t) ==
    /\ ids' = t
    /\ op' = o
    /\ hist' = Append(hist, [op |-> o, res |-> "ok"])
    /\ digest' = [ref |-> calc_hash(ref), ids |-> calc_hash(t)]
    /\ UNCHANGED <<ref, backend, context_store, calls, pc, loc, pre,
                   descriptor, array, data, ids2, walk, nc, more>>

\* a node that holds the empty value of its type is set to that value
set_empty ==
    /\ Len(hist) < MaxOps
    /\ op \in {"none", "set_empty"}
    /\ \E node \in NodesOf(ids) \ ids.touched :
        /\ ValueAt(ids, node) = EmptyOf(node)
        /\ Hashed("set_empty", Assign(ids, node, EmptyOf(node)))

\* the children of ids_properties/version_put are given other values
set_version_put ==
    /\ hist = <<>>
    /\ \E d \in HashVersions, l \in HashLanguages :
        /\ <<d, l>> # <<ids.dd, ids.lang>>
        /\ Hashed("set_version_put",
                  Assign(Assign(ids, <<"dd", 0>>, d), <<"lang", 0>>, l))

\* a filled leaf outside version_put is given another value
set_leaf ==
    /\ hist = <<>>
    /\ \E node \in NodesOf(ids) \ {<<"dd", 0>>, <<"lang", 0>>, <<"aos", 0>>} :
        /\ ValueAt(ids, node) # EmptyOf(node)
        /\ \E v \in ValuesOf(node) \ {ValueAt(ids, node)} :
            Hashed("set_leaf", Assign(ids, node, v))

\* the array of structures gets one element more or one less
set_length ==
    /\ hist = <<>>
    /\ \/ /\ Len(ids.aos) < MaxLen
          /\ \E v \in HashValues :
              Hashed("set_length", [ids EXCEPT !.aos = Append(@, Element(v))])
       \/ /\ Len(ids.aos) > 0
          /\ Hashed("set_length",
                    [ids EXCEPT !.aos = SubSeq(@, 1, Len(@) - 1)])

\* two elements with different filled content change places
exchange ==
    /\ hist = <<>>
    /\ \E i, j \in 1..Len(ids.aos) :
        /\ i < j
        /\ ids.aos[i] # ids.aos[j]
        /\ Hashed("exchange",
                  [ids EXCEPT !.aos = [@ EXCEPT ![i] = ids.aos[j], ![j] = ids.aos[i]]])

\* ------------------------------------------------------------ serializer
\* The byte sequence of the serializer: the schema version tag, then the
\* nodes in the order of the hash traversal, each with a marker that tells an
\* empty node from a filled one. A string stands for its UTF-8 bytes by one
\* code.
StrCode(str) ==
    CASE str = Version -> 201
      [] str = OtherVersion -> 202
      [] str = "Python" -> 203

StrOf(code) ==
    CASE code = 201 -> Version
      [] code = 202 -> OtherVersion
      [] code = 203 -> "Python"

ser_INT_0D(v) == IF v = EMPTY_INT THEN <<0>> ELSE <<1, v>>
ser_STR_0D(str) == IF str = "" THEN <<0>> ELSE <<1, StrCode(str)>>
ser_1D(a) == <<Len(a)>> \o a
ser_element(e) == ser_INT_0D(e.v)
ser_aos(a) == <<Len(a)>> \o Concat([j \in 1..Len(a) |-> ser_element(a[j])])

\* the serializer writing the marker of an empty node for every scalar
serialize_unfilled(t) ==
    <<StrCode(Version)>> \o ser_aos(t.aos)
        \o ser_INT_0D(t.ht) \o ser_STR_0D(t.lang) \o ser_STR_0D(t.dd)
        \o ser_1D(t.time) \o ser_INT_0D(EMPTY_INT)

serialize(t) ==
    <<StrCode(Version)>> \o ser_aos(t.aos)
        \o ser_INT_0D(t.ht) \o ser_STR_0D(t.lang) \o ser_STR_0D(t.dd)
        \o ser_1D(t.time) \o ser_INT_0D(t.x)

\* each reader takes its node from the front of the bytes and hands back the
\* value and the bytes that follow
Read(value, bytes, used) ==
    [value |-> value, rest |-> SubSeq(bytes, used + 1, Len(bytes))]

de_INT_0D(bytes) ==
    IF bytes[1] = 0 THEN Read(EMPTY_INT, bytes, 1) ELSE Read(bytes[2], bytes, 2)

de_STR_0D(bytes) ==
    IF bytes[1] = 0 THEN Read("", bytes, 1) ELSE Read(StrOf(bytes[2]), bytes, 2)

de_1D(bytes) == Read(SubSeq(bytes, 2, 1 + bytes[1]), bytes, 1 + bytes[1])

RECURSIVE de_elements(_, _)
de_elements(bytes, n) ==
    IF n = 0
    THEN Read(<<>>, bytes, 0)
    ELSE LET e == de_INT_0D(bytes)
             others == de_elements(e.rest, n - 1)
         IN  [value |-> <<Element(e.value)>> \o others.value, rest |-> others.rest]

de_aos(bytes) == de_elements(Tail(bytes), bytes[1])

\* deserialize into a fresh top-level of the schema version of the tag
deserialize(bytes) ==
    LET a == de_aos(Tail(bytes))
        h == de_INT_0D(a.rest)
        l == de_STR_0D(h.rest)
        d == de_STR_0D(l.rest)
        t == de_1D(d.rest)
        xv == de_INT_0D(t.rest)
        u == [ht |-> h.value, dd |-> d.value, lang |-> l.value,
              time |-> t.value, x |-> xv.value, aos |-> a.value]
    IN  [ht |-> u.ht, dd |-> u.dd, lang |-> u.lang, time |-> u.time, x |-> u.x,
         aos |-> u.aos,
         touched |-> {node \in NodesOf(u) : ValueAt(u, node) # EmptyOf(node)}]

\* test_latest_dd_autofill.py 49-63: data = ids.serialize(), then
\* ids2.deserialize(data) on a new top-level of the same factory
serialize_deserialize ==
    /\ pc = "idle"
    /\ op # "deserialize"
    /\ data' = serialize(ids)
    /\ ids2' = deserialize(data')
    /\ digest' = [ref |-> calc_hash(ids), ids |-> calc_hash(ids2')]
    /\ op' = "deserialize"
    /\ hist' = Append(hist, [op |-> "deserialize", res |-> "ok"])
    /\ UNCHANGED <<ids, ref, backend, context_store, calls, pc, loc, pre,
                   descriptor, array, walk, nc, more>>

NextHash ==
    \/ serialize_deserialize
    \/ set_empty
    \/ set_version_put
    \/ set_leaf
    \/ set_length
    \/ exchange

SpecHash == InitHash /\ [][NextHash]_vars

\* ---------------------------------------------------------------- tree_iter
\* The nodes of a top-level, each named by its field and, inside an element
\* of the array of structures, the position of the element (0 otherwise).
Root == <<"ids", 0>>

\* the children of a node in schema order; the elements of an array of
\* structures in list order
ChildrenOf(t, node) ==
    CASE node[1] = "ids" ->
            << <<"ids_properties", 0>>, <<"time", 0>>, <<"x", 0>>, <<"aos", 0>> >>
      [] node[1] = "ids_properties" -> << <<"ht", 0>>, <<"version_put", 0>> >>
      [] node[1] = "version_put" -> << <<"dd", 0>>, <<"lang", 0>> >>
      [] node[1] = "aos" -> [j \in 1..Len(t.aos) |-> <<"el", j>>]
      [] node[1] = "el" -> << <<"v", node[2]>> >>
      [] OTHER -> <<>>

Parent(node) ==
    CASE node[1] \in {"ids_properties", "time", "x", "aos"} -> Root
      [] node[1] \in {"ht", "version_put"} -> <<"ids_properties", 0>>
      [] node[1] \in {"dd", "lang"} -> <<"version_put", 0>>
      [] node[1] = "el" -> <<"aos", 0>>
      [] node[1] = "v" -> <<"el", node[2]>>

\* isinstance(node, IDSPrimitive)
IsPrimitive(node) == node[1] \in {"ht", "dd", "lang", "time", "x", "v"}

\* isinstance(node, IDSStructure): IDSStructArray derives from IDSStructure
\* (ids_struct_array.py 20)
IsStructure(node) == ~IsPrimitive(node)

\* the emptiness rule: a primitive by its value, an array of structures by
\* its length, a structure by its children
RECURSIVE has_value(_, _)
has_value(t, node) ==
    IF IsPrimitive(node) THEN ValueAt(t, node) # EmptyOf(node)
    ELSE IF node[1] = "aos" THEN Len(t.aos) > 0
    ELSE \E k \in 1..Len(ChildrenOf(t, node)) : has_value(t, ChildrenOf(t, node)[k])

\* the iterator that hands out every child, empty or not
iter_all_(t, node) == ChildrenOf(t, node)

\* node.iter_nonempty_(): the children that are not empty
iter_nonempty_(t, node) ==
    SelectSeq(ChildrenOf(t, node), LAMBDA child : has_value(t, child))

RECURSIVE Descendants(_, _)
Descendants(t, node) ==
    UNION {{ChildrenOf(t, node)[k]} \cup Descendants(t, ChildrenOf(t, node)[k]) :
            k \in 1..Len(ChildrenOf(t, node))}

\* the trees tree_iter is called on
IterTrees ==
    {[ht |-> h, dd |-> d, lang |-> "", time |-> <<>>, x |-> xv, aos |-> a] :
        h \in {EMPTY_INT, IDS_TIME_MODE_HOMOGENEOUS}, d \in {"", Version},
        xv \in LeafValues,
        a \in SeqsUpTo({Element(v) : v \in LeafValues}, MaxLen)}

InitIter ==
    /\ ids \in IterTrees
    /\ ref = EmptyTree
    /\ storage = EmptyTree
    /\ Constructed("", FALSE)
    /\ Started
    /\ Unused
    /\ Uncalled

\* util.py 117-124: a _tree_iter generator before its first child
Frame(t, node, visit_empty) ==
    [iterator |-> IF ~visit_empty /\ IsStructure(node)
                  THEN iter_nonempty_(t, node)
                  ELSE ChildrenOf(t, node),
     k |-> 1]

\* util.py 72-114 (and 22-69 with include_node): the call yields the node
\* itself when asked to and starts _tree_iter below it. The caller iterates
\* over the tree it was given and again after it has changed it.
tree_iter ==
    /\ Callable
    /\ op # "tree_iter"
    /\ \E node \in {Root} \cup Descendants(ids, Root),
          leaf_only \in BOOLEAN, visit_empty \in BOOLEAN, include_node \in BOOLEAN :
        /\ request' = [node |-> node, leaf_only |-> leaf_only,
                       visit_empty |-> visit_empty, include_node |-> include_node]
        /\ yielded' = IF include_node /\ (~leaf_only \/ IsPrimitive(node))
                      THEN <<node>> ELSE <<>>
        /\ frames' = IF ~IsPrimitive(node)
                     THEN <<Frame(ids, node, visit_empty)>> ELSE <<>>
    /\ pc' = "tree_iter"
    /\ op' = "tree_iter"
    /\ UNCHANGED <<ids, ref, backend, context_store, calls, loc, hist, pre,
                   descriptor, array, digest, data, ids2, nc, more>>

\* the generator that yields an internal node after the nodes below it
tree_iter_next_postorder ==
    /\ pc = "tree_iter"
    /\ frames # <<>>
    /\ LET top == Len(frames)
           f == frames[top]
           child == f.iterator[f.k]
       IN  IF f.k > Len(f.iterator)
           THEN /\ frames' = SubSeq(frames, 1, top - 1)
                /\ yielded' = IF top > 1 /\ ~request.leaf_only
                              THEN Append(yielded,
                                          frames[top - 1].iterator[frames[top - 1].k - 1])
                              ELSE yielded
           ELSE IF IsPrimitive(child)
           THEN /\ frames' = [frames EXCEPT ![top].k = @ + 1]
                /\ yielded' = Append(yielded, child)
           ELSE /\ frames' = Append([frames EXCEPT ![top].k = @ + 1],
                                    Frame(ids, child, request.visit_empty))
                /\ yielded' = yielded
    /\ UNCHANGED <<ids, ref, backend, context_store, calls, pc, op, loc, hist, pre,
                   descriptor, array, digest, data, ids2, request, nc, more>>

\* util.py 126-132: the innermost generator takes its next child, yields it
\* (an internal node only when leaf_only is off) and descends into it, or is
\* exhausted and hands over to the generator that called it
tree_iter_next ==
    /\ pc = "tree_iter"
    /\ frames # <<>>
    /\ LET top == Len(frames)
           f == frames[top]
           child == f.iterator[f.k]
       IN  IF f.k > Len(f.iterator)
           THEN /\ frames' = SubSeq(frames, 1, top - 1)
                /\ yielded' = yielded
           ELSE IF IsPrimitive(child)
           THEN /\ frames' = [frames EXCEPT ![top].k = @ + 1]
                /\ yielded' = Append(yielded, child)
           ELSE /\ frames' = Append([frames EXCEPT ![top].k = @ + 1],
                                    Frame(ids, child, request.visit_empty))
                /\ yielded' = IF request.leaf_only THEN yielded
                              ELSE Append(yielded, child)
    /\ UNCHANGED <<ids, ref, backend, context_store, calls, pc, op, loc, hist, pre,
                   descriptor, array, digest, data, ids2, request, nc, more>>

\* the outermost generator is exhausted: the loop of the caller ends
tree_iter_end ==
    /\ pc = "tree_iter"
    /\ frames = <<>>
    /\ Done("tree_iter", "ok")
    /\ UNCHANGED <<ids, ref, backend, context_store, calls, op, pre,
                   descriptor, array, results>>

\* between two calls the caller fills or empties a leaf
fill ==
    /\ Callable
    /\ \E node \in {n \in Descendants(ids, Root) : n[1] \in {"x", "v"}} :
        \E v \in LeafValues \ {ValueAt(ids, node)} :
            ids' = Put(ids, node, v)
    /\ op' = "fill"
    /\ hist' = Append(hist, [op |-> "fill", res |-> "ok"])
    /\ UNCHANGED <<ref, backend, context_store, calls, pc, loc, pre,
                   descriptor, array, results>>

NextIter ==
    \/ tree_iter
    \/ tree_iter_next
    \/ tree_iter_end
    \/ fill

\* the loop of the caller keeps asking for the next node
SpecIter == InitIter /\ [][NextIter]_vars /\ WF_vars(tree_iter_next \/ tree_iter_end)

\* ------------------------------------------------------------------ ids2nc
\* The top-level ids2nc stores: the time vector, and an array of structures
\* over time whose elements hold a scalar v and a 1D array w.
NcElement(v, w) == [v |-> v, w |-> w]
NcArrays == {<<>>, <<7>>, <<7, 8>>, <<7, 8, 9>>}

NcTrees ==
    {[ht |-> h, dd |-> "", lang |-> "", time |-> t, x |-> xv, aos |-> a] :
        h \in {IDS_TIME_MODE_HETEROGENEOUS, IDS_TIME_MODE_HOMOGENEOUS},
        t \in NcArrays, xv \in LeafValues,
        a \in SeqsUpTo({NcElement(v, w) : v \in LeafValues, w \in NcArrays}, MaxLen)}

\* ncmeta.get_dimensions(path, homogeneous_time): the dimensions of the
\* variable of a path, those of the arrays of structures above it first; a
\* node over time uses the one time dimension when the time mode is
\* homogeneous
TimeDim(path, homogeneous_time) ==
    IF homogeneous_time THEN "time" ELSE path

get_dimensions(path, homogeneous_time) ==
    CASE path = "time" -> <<"time">>
      [] path = "aos" -> <<TimeDim("aos.time", homogeneous_time)>>
      [] path = "aos/v" -> <<TimeDim("aos.time", homogeneous_time)>>
      [] path = "aos/w" -> <<TimeDim("aos.time", homogeneous_time), "aos.w:i">>
      [] OTHER -> <<>>

\* node.metadata.ndim
ndim(path) == IF path \in {"time", "aos", "aos/w"} THEN 1 ELSE 0

\* what nc_tree_iter yields for a node: the AoS index with the node, of
\* which the path, the shape, the kind and the value are kept (a scalar as
\* a sequence of one value)
Yield(path, aos_index, shape, value) ==
    [path |-> path, aos_index |-> aos_index, shape |-> shape,
     primitive |-> path # "aos", value |-> value]

\* ids2nc.py 19-40 on an element, then on the top-level: the filled leaves
\* and the non-empty arrays of structures, the elements of an array under
\* the index they have in it (from 0)
nc_tree_iter_element(e, aos_index) ==
    (IF e.v # EMPTY_INT THEN <<Yield("aos/v", aos_index, <<>>, <<e.v>>)>> ELSE <<>>)
        \o (IF Len(e.w) > 0
            THEN <<Yield("aos/w", aos_index, <<Len(e.w)>>, e.w)>> ELSE <<>>)

\* the walk started with an AoS index of one position
nc_tree_iter_indexed(t) ==
    (IF t.ht # EMPTY_INT
     THEN <<Yield("ids_properties/homogeneous_time", <<0>>, <<>>, <<t.ht>>)>>
     ELSE <<>>)
        \o (IF Len(t.time) > 0
            THEN <<Yield("time", <<0>>, <<Len(t.time)>>, t.time)>> ELSE <<>>)
        \o (IF t.x # EMPTY_INT THEN <<Yield("x", <<0>>, <<>>, <<t.x>>)>> ELSE <<>>)
        \o (IF Len(t.aos) > 0
            THEN <<Yield("aos", <<0>>, <<Len(t.aos)>>, <<>>)>>
                    \o Concat([i \in 1..Len(t.aos) |->
                                nc_tree_iter_element(t.aos[i], <<0, i - 1>>)])
            ELSE <<>>)

nc_tree_iter(t) ==
    (IF t.ht # EMPTY_INT
     THEN <<Yield("ids_properties/homogeneous_time", <<>>, <<>>, <<t.ht>>)>>
     ELSE <<>>)
        \o (IF Len(t.time) > 0
            THEN <<Yield("time", <<>>, <<Len(t.time)>>, t.time)>> ELSE <<>>)
        \o (IF t.x # EMPTY_INT THEN <<Yield("x", <<>>, <<>>, <<t.x>>)>> ELSE <<>>)
        \o (IF Len(t.aos) > 0
            THEN <<Yield("aos", <<>>, <<Len(t.aos)>>, <<>>)>>
                    \o Concat([i \in 1..Len(t.aos) |->
                                nc_tree_iter_element(t.aos[i], <<i - 1>>)])
            ELSE <<>>)

Max(a, b) == IF a >= b THEN a ELSE b

\* used_dimensions.get(dim_name, 0) and used_dimensions[dim_name] = size
GetDim(used, dim_name) == IF dim_name \in DOMAIN used THEN used[dim_name] ELSE 0
SetDim(used, dim_name, size) ==
    [d \in DOMAIN used \cup {dim_name} |-> IF d = dim_name THEN size ELSE used[d]]

\* the loop keeping the size seen last
note_shape_last(used, dimensions, shape, i) ==
    IF i = 0 THEN used
    ELSE SetDim(used, dimensions[Len(dimensions)], shape[Len(shape)])

\* ids2nc.py 65-71: for i in range(-ndim, 0), the last ndim dimensions of
\* the node against its shape
RECURSIVE note_shape(_, _, _, _)
note_shape(used, dimensions, shape, i) ==
    IF i = 0 THEN used
    ELSE LET dim_name == dimensions[Len(dimensions) - i + 1]
             size == Max(GetDim(used, dim_name), shape[Len(shape) - i + 1])
         IN  note_shape(SetDim(used, dim_name, size), dimensions, shape, i - 1)

\* ids2nc.py 62-73: the first loop over nc_tree_iter(ids)
RECURSIVE dimension_sizes(_, _, _)
dimension_sizes(nodes, used, homogeneous_time) ==
    IF nodes = <<>> THEN used
    ELSE LET node == Head(nodes)
             dimensions == get_dimensions(node.path, homogeneous_time)
         IN  dimension_sizes(Tail(nodes),
                             note_shape(used, dimensions, node.shape, ndim(node.path)),
                             homogeneous_time)

\* the value netCDF4 gives a position of a variable that was never written
FILL == -1

\* the index tuples of an array over the dimensions, from 0
RECURSIVE Positions(_, _)
Positions(dimensions, used) ==
    IF dimensions = <<>> THEN {<<>>}
    ELSE {<<i>> \o p : i \in 0..(GetDim(used, Head(dimensions)) - 1),
                       p \in Positions(Tail(dimensions), used)}

\* ids2nc.py 90-96 with 116-117: group.createVariable over the declared
\* dimensions, read back unmasked
createVariable(dimensions, used) ==
    [dimensions |-> dimensions,
     data |-> [p \in Positions(dimensions, used) |-> FILL]]

\* the positions tmp_var[aos_coords] or tmp_var[aos_coords + (...,)] selects
Slice(tmp_var, aos_coords) ==
    {p \in DOMAIN tmp_var :
        /\ Len(p) >= Len(aos_coords)
        /\ SubSeq(p, 1, Len(aos_coords)) = aos_coords}

\* ids2nc.py 118-120: tmp_var[coords] = node.value; an array value is
\* copied when it has the extent of the slice, repeated over the slice when
\* it has extent 1, and refused otherwise
Assigned(tmp_var, node) ==
    LET slice == Slice(tmp_var, node.aos_index) IN
    CASE slice = {} ->
            [tmp_var |-> tmp_var, err |-> "IndexError"]
      [] slice # {} /\ Len(node.value) \notin {1, Cardinality(slice)} ->
            [tmp_var |-> tmp_var, err |-> "ValueError"]
      [] OTHER ->
            [tmp_var |-> [p \in DOMAIN tmp_var |->
                            IF p \notin slice THEN tmp_var[p]
                            ELSE IF Len(node.value) = 1 THEN node.value[1]
                            ELSE node.value[p[Len(p)] + 1]],
             err |-> "none"]

\* ids2nc.py 118-120: the loop over filled_data[path].items()
RECURSIVE Tensorized(_, _)
Tensorized(tmp_var, nodes) ==
    IF nodes = <<>> THEN [tmp_var |-> tmp_var, err |-> "none"]
    ELSE LET r == Assigned(tmp_var, Head(nodes))
         IN  IF r.err # "none" THEN r ELSE Tensorized(r.tmp_var, Tail(nodes))

\* ids2nc.py 106-124: the variable is written whole at the end, so after an
\* exception it holds what createVariable gave it
fill_variable(var, nodes) ==
    IF var.dimensions = <<>>
    THEN CASE Len(nodes) # 1 -> [var |-> var, err |-> "AssertionError"]
           [] Len(nodes) = 1 /\ nodes[1].aos_index # <<>> ->
                [var |-> var, err |-> "KeyError"]
           [] OTHER ->
                [var |-> [var EXCEPT !.data = (<<>> :> nodes[1].value[1])],
                 err |-> "none"]
    ELSE LET r == Tensorized(var.data, nodes)
         IN  [var |-> IF r.err = "none" THEN [var EXCEPT !.data = r.tmp_var]
                      ELSE var,
              err |-> r.err]

\* the keys of filled_data, in the order they were inserted
RECURSIVE PathsOf(_)
PathsOf(filled) ==
    IF filled = <<>> THEN <<>>
    ELSE <<Head(filled).path>>
            \o PathsOf(SelectSeq(Tail(filled),
                                 LAMBDA o : o.path # Head(filled).path))

\* ids2nc.py 79-124: the second loop, one variable per key of filled_data,
\* until an exception leaves the function
RECURSIVE store_variables(_, _, _, _, _)
store_variables(paths, filled, used, homogeneous_time, g) ==
    IF paths = <<>> \/ g.err # "none" THEN g
    ELSE LET path == Head(paths)
             var == createVariable(get_dimensions(path, homogeneous_time), used)
             r == fill_variable(var, SelectSeq(filled, LAMBDA o : o.path = path))
         IN  store_variables(Tail(paths), filled, used, homogeneous_time,
                             [variables |-> SetDim(g.variables, path, r.var),
                              err |-> r.err])

InitNc ==
    /\ ids \in NcTrees
    /\ ref = EmptyTree
    /\ storage = EmptyTree
    /\ Constructed("", FALSE)
    /\ Started
    /\ Unused
    /\ Uncalled

\* ids2nc.py 43-124: the dimensions are created with the sizes collected,
\* then the variables of the filled paths are created and filled
ids2nc ==
    /\ Callable
    /\ op # "ids2nc"
    /\ LET nodes == nc_tree_iter(ids)
           homogeneous_time == ids.ht = 1
           used == dimension_sizes(nodes, <<>>, homogeneous_time)
           filled == SelectSeq(nodes, LAMBDA node : node.primitive)
           g == store_variables(PathsOf(filled), filled, used,
                                homogeneous_time, NoGroup)
       IN  /\ used_dimensions' = used
           /\ filled_data' = filled
           /\ group' = g
           /\ hist' = Append(hist, [op |-> "ids2nc",
                                    res |-> IF g.err = "none" THEN "ok"
                                            ELSE g.err])
    /\ op' = "ids2nc"
    /\ UNCHANGED <<ids, ref, backend, context_store, calls, pc, loc, pre,
                   descriptor, array, digest, data, ids2, walk, more>>

NextNc == ids2nc

SpecNc == InitNc /\ [][NextNc]_vars

\* ---------------------------------------------------------------- idsdiffgen
\* child.metadata.name: the elements of an array of structures are all built
\* under one name (ids_struct_array.py 70-74)
NameOf(node) == node[1]

\* {child.metadata.name: child for child in ...}: one entry per name, in the
\* order the names first come, holding the child that came last under it
RECURSIVE NamesOf(_)
NamesOf(children) ==
    IF children = <<>> THEN <<>>
    ELSE <<NameOf(Head(children))>>
            \o NamesOf(SelectSeq(Tail(children),
                                 LAMBDA c : NameOf(c) # NameOf(Head(children))))

ByName(children) ==
    [k \in 1..Len(NamesOf(children)) |->
        Last(SelectSeq(children, LAMBDA c : NameOf(c) = NamesOf(children)[k]))]

\* util.py 117-132 with leaf_only set and visit_empty not: the filled
\* leaves below a node
RECURSIVE filled_leaves(_, _)
filled_leaves(t, node) ==
    Concat([k \in 1..Len(iter_nonempty_(t, node)) |->
            IF IsPrimitive(iter_nonempty_(t, node)[k])
            THEN <<iter_nonempty_(t, node)[k]>>
            ELSE filled_leaves(t, iter_nonempty_(t, node)[k])])

\* a yielded tuple: the path or a description, and which side holds a node
Difference(what, in1, in2) == [what |-> what, in1 |-> in1, in2 |-> in2]

\* util.py 211-212 and 235-236: a child found on one side only
OnlyIn(t, child, first) ==
    IF IsStructure(child)
    THEN [k \in 1..Len(filled_leaves(t, child)) |->
            Difference(filled_leaves(t, child)[k], first, ~first)]
    ELSE <<Difference(child, first, ~first)>>

\* util.py 193-238: the children of both structures by name; a pair of
\* arrays of structures is a pair of IDSStructure (ids_struct_array.py 20) and
\* is taken by the branch of line 218 before that of line 222 is looked at
RECURSIVE idsdiffgen_rec(_, _, _, _)
idsdiffgen_rec(t1, struct1, t2, struct2) ==
    LET children1 == ByName(iter_nonempty_(t1, struct1))
        children2 == ByName(iter_nonempty_(t2, struct2))
        popped == {NameOf(children1[k]) : k \in 1..Len(children1)}
        left == SelectSeq(children2, LAMBDA c : NameOf(c) \notin popped)
        Compared(child1) ==
            LET found == SelectSeq(children2, LAMBDA c : NameOf(c) = NameOf(child1))
            IN  IF found = <<>> THEN OnlyIn(t1, child1, TRUE)
                ELSE IF IsPrimitive(child1) /\ IsPrimitive(found[1])
                THEN IF ValueAt(t1, child1) # ValueAt(t2, found[1])
                     THEN <<Difference(child1, TRUE, TRUE)>>
                     ELSE <<>>
                ELSE IF IsStructure(child1) /\ IsStructure(found[1])
                THEN idsdiffgen_rec(t1, child1, t2, found[1])
                ELSE <<Difference("Incompatible types", TRUE, TRUE)>>
    IN  Concat([k \in 1..Len(children1) |-> Compared(children1[k])])
            \o Concat([k \in 1..Len(left) |-> OnlyIn(t2, left[k], FALSE)])

\* util.py 150-190: struct1 is the top-level ids under its own schema
\* version and name; struct2 is a structure of ref
idsdiffgen_yields(version, name, node) ==
    (IF Version # version
     THEN <<Difference("Data Dictionary version", TRUE, TRUE)>> ELSE <<>>)
        \o (IF Name # name THEN <<Difference("IDS name", TRUE, TRUE)>> ELSE <<>>)
        \o (IF Root # node THEN <<Difference("Path in IDS", TRUE, TRUE)>> ELSE <<>>)
        \o idsdiffgen_rec(ids, Root, ref, node)

\* the pairs of trees idsdiffgen is called on
DiffTrees ==
    {[ht |-> h, dd |-> "", lang |-> "", time |-> <<>>, x |-> xv, aos |-> a] :
        h \in {EMPTY_INT, IDS_TIME_MODE_HOMOGENEOUS}, xv \in LeafValues,
        a \in SeqsUpTo({Element(v) : v \in LeafValues}, MaxLen)}

InitDiff ==
    /\ ids \in DiffTrees
    /\ ref \in DiffTrees
    /\ storage = EmptyTree
    /\ Constructed("", FALSE)
    /\ Started
    /\ Unused
    /\ Uncalled

idsdiffgen ==
    /\ Callable
    /\ op # "idsdiffgen"
    /\ \E version \in {Version, OtherVersion}, name \in {Name, "other"},
          node \in {Root, <<"ids_properties", 0>>} :
        difference' = [version |-> version, name |-> name, node |-> node,
                       yielded |-> idsdiffgen_yields(version, name, node)]
    /\ op' = "idsdiffgen"
    /\ hist' = Append(hist, [op |-> "idsdiffgen", res |-> "ok"])
    /\ UNCHANGED <<ids, ref, backend, context_store, calls, pc, loc, pre,
                   descriptor, array, digest, data, ids2, walk, nc, file, pulse,
                   store, addressed>>

NextDiff == idsdiffgen

SpecDiff == InitDiff /\ [][NextDiff]_vars

\* ------------------------------------------------------------------- UALFile
\* hasattr(self, key), and object attribute assignment
hasattr(attrs, key) == key \in DOMAIN attrs
setattr(attrs, key, value) ==
    [k \in DOMAIN attrs \cup {key} |-> IF k = key THEN value ELSE attrs[k]]

\* ual.py 236-242: UALFile.__setattr__ tests the attribute
\* _attributes_locked
UALFile_setattr(attrs, key, value) ==
    IF hasattr(attrs, "_attributes_locked") /\ attrs["_attributes_locked"]
    THEN [attrs |-> attrs, err |-> "AttributeError"]
    ELSE [attrs |-> setattr(attrs, key, value), err |-> "none"]

\* ual.py 172-180: the properties readable and writeable
readable(attrs) == ~attrs["closed"]
writeable(attrs) == ~attrs["closed"]

\* ual.py 47-54 and 183-196: the backends and the modes a caller passes
UAL_BACKENDS == {"MDSPLUS_BACKEND", "HDF5_BACKEND"}
Modes == {"r", "w", "a", "x", "rw"}
Shots == {0, 1, 2}

\* ual.py 153-164: the action ual_open_pulse is called with
PulseAction(mode) ==
    CASE mode = "r" -> "OPEN_PULSE"
      [] mode = "w" -> "FORCE_CREATE_PULSE"
      [] mode = "a" -> "FORCE_OPEN_PULSE"
      [] mode = "x" -> "CREATE_PULSE"
      [] OTHER -> "none"

\* ual.py 96-170: the exception UALFile.__init__ ends with, given the
\* statuses of ual_begin_pulse_action and ual_open_pulse
InitError(backend_id, shot, mode, begun, opened) ==
    CASE backend_id = "MDSPLUS_BACKEND" /\ shot < 1 -> "Exception"
      [] backend_id \notin UAL_BACKENDS -> "Exception"
      [] begun # 0 -> "ALError"
      [] mode = "r" /\ opened # 0 -> "PulseNotFoundError"
      [] mode \notin {"r", "w", "a", "x"} -> "ValueError"
      [] opened # 0 -> "ALError"
      [] OTHER -> "none"

\* the attributes assigned one after the other through __setattr__
RECURSIVE Assigned_(_, _)
Assigned_(attrs, pairs) ==
    IF pairs = <<>> THEN attrs
    ELSE Assigned_(UALFile_setattr(attrs, Head(pairs)[1], Head(pairs)[2]).attrs,
                   Tail(pairs))

InitFile ==
    /\ ids = EmptyTree
    /\ ref = EmptyTree
    /\ storage = EmptyTree
    /\ Constructed("", FALSE)
    /\ Started
    /\ Unused
    /\ Uncalled

\* ual.py 96-170: UALFile(backend_id, db_name, shot, run, ..., mode)
UALFile_init ==
    /\ pc = "idle"
    /\ hist = <<>>
    /\ \E backend_id \in UAL_BACKENDS \cup {"NO_SUCH_BACKEND"}, shot \in Shots,
          mode \in Modes, begun \in {0, -1}, opened \in {0, -1} :
        LET err == InitError(backend_id, shot, mode, begun, opened)
            checked == ~(\/ backend_id = "MDSPLUS_BACKEND" /\ shot < 1
                         \/ backend_id \notin UAL_BACKENDS)
            named == IF checked
                     THEN Assigned_(<<>>, << <<"db_name", "test">>, <<"shot", shot>>,
                                            <<"run", 1>>, <<"backend_id", backend_id>> >>)
                     ELSE <<>>
            done == IF err = "none"
                    THEN Assigned_(named, << <<"closed", FALSE>>,
                                            <<"_context_idx", Idx>>,
                                            <<"_attrs_locked", TRUE>> >>)
                    ELSE named
        IN  /\ file' = [attrs |-> done, was |-> <<>>, key |-> ""]
            /\ pulse' =
                (IF checked THEN <<"begin_pulse_action">> ELSE <<>>)
                    \o (IF checked /\ begun = 0 /\ PulseAction(mode) # "none"
                        THEN <<PulseAction(mode)>> ELSE <<>>)
            /\ hist' = Append(hist, [op |-> "UALFile", res |-> IF err = "none" THEN "ok" ELSE err])
    /\ op' = "UALFile"
    /\ UNCHANGED <<ids, ref, backend, context_store, calls, pc, loc, pre,
                   descriptor, array, digest, data, ids2, walk, nc, difference,
                   store, addressed>>

\* a UALFile was constructed and the caller goes on using it
Opened ==
    /\ pc = "idle"
    /\ hist # <<>>
    /\ hist[1].res = "ok"
    /\ Len(hist) <= MaxOps

\* file.key = value by the holder of the object
UALFile_assign ==
    /\ Opened
    /\ \E key \in {"shot", "run", "db_name"} :
       \E value \in IF key = "db_name" THEN {"test", "other"} ELSE {1, 2} :
        LET r == UALFile_setattr(file.attrs, key, value)
        IN  /\ file' = [attrs |-> r.attrs, was |-> file.attrs, key |-> key]
            /\ hist' = Append(hist, [op |-> "setattr",
                                     res |-> IF r.err = "none" THEN "ok" ELSE r.err])
    /\ op' = "setattr"
    /\ UNCHANGED <<ids, ref, backend, context_store, calls, pc, loc, pre,
                   descriptor, array, digest, data, ids2, walk, nc, difference,
                   pulse, store, addressed>>

\* ual.py 205-212: close reads self.db_ctx, which no code assigns before,
\* and calls ull, a name bound only inside __init__ (line 129)
UALFile_close ==
    /\ Opened
    /\ LET err == IF ~hasattr(file.attrs, "db_ctx") THEN "AttributeError"
                  ELSE IF file.attrs["db_ctx"] # -1 THEN "NameError"
                  ELSE "none"
           unlocked == IF hasattr(file.attrs, "db_ctx") /\ file.attrs["db_ctx"] # -1
                       THEN UALFile_setattr(file.attrs, "_attrs_locked", FALSE).attrs
                       ELSE file.attrs
       IN  /\ file' = [attrs |-> unlocked, was |-> file.attrs, key |-> ""]
           /\ hist' = Append(hist, [op |-> "close",
                                    res |-> IF err = "none" THEN "ok" ELSE err])
    /\ op' = "close"
    /\ UNCHANGED <<ids, ref, backend, context_store, calls, pc, loc, pre,
                   descriptor, array, digest, data, ids2, walk, nc, difference,
                   pulse, store, addressed>>

NextFile ==
    \/ UALFile_init
    \/ UALFile_assign
    \/ UALFile_close

SpecFile == InitFile /\ [][NextFile]_vars

\* --------------------------------------------------------------- occurrences
\* put, get and deleteData with an occurrence, each run to its end against a
\* backend that answers every call with status 0 and keeps what is written
\* under the path the global action was begun with.
OccurrenceRange == {0, 1, 2}

\* ids_toplevel.py 135-138, 171-174, 205-209, 270-272 and 331-333: the path
\* of the top-level with the occurrence, as a list of its parts
occurrence_path(occurrence) ==
    IF occurrence = 0 THEN <<Name>> ELSE <<Name, "/", ToString(occurrence)>>

\* ids_toplevel.py 283-302: one delete per child of the top-level
DeletedChildren(st) ==
    Deleted(Deleted(Deleted(Deleted(st, Children[1]), Children[2]), Children[3]),
            Children[4])

\* ids_toplevel.py 252 with ids_struct_array.py 180-202: every primitive is
\* read; an array of structures is resized and its elements are read unless
\* the backend reports a size below 1
ReadInto(t, stored) ==
    [stored EXCEPT !.aos = IF Len(stored.aos) < 1 THEN t.aos ELSE stored.aos]

OccTrees ==
    {[ht |-> h, dd |-> "", lang |-> "", time |-> <<>>, x |-> xv, aos |-> a] :
        h \in {EMPTY_INT, IDS_TIME_MODE_INDEPENDENT}, xv \in LeafValues,
        a \in {<<>>, <<Element(42)>>}}

InitOcc ==
    /\ ids \in OccTrees
    /\ ref = EmptyTree
    /\ storage = EmptyTree
    /\ Constructed("", FALSE)
    /\ Started
    /\ Unused
    /\ digest = NoDigest
    /\ data = <<>>
    /\ ids2 = EmptyTree
    /\ request = NoRequest
    /\ frames = <<>>
    /\ yielded = <<>>
    /\ used_dimensions = <<>>
    /\ filled_data = <<>>
    /\ group = NoGroup
    /\ difference = NoDifference
    /\ file = NoFile
    /\ pulse = <<>>
    /\ store \in [{occurrence_path(k) : k \in OccurrenceRange} -> StoredTrees]
    /\ addressed = NoOccurrence

\* ids_toplevel.py 378-387 and 320-369: put(occurrence)
put_occurrence ==
    /\ Callable
    /\ \E occurrence \in OccurrenceRange :
        LET t == stamp(ids, FALSE)
            c == to_ualstore_check(t)
            rel_path == occurrence_path(occurrence)
            path == occurrence_path(occurrence)
            deleted == [store EXCEPT ![rel_path] = DeletedChildren(@)]
        IN  /\ ids' = t
            /\ store' = IF c = "deleteData"
                        THEN [deleted EXCEPT ![path] = t]
                        ELSE store
            /\ addressed' = [occurrence |-> occurrence, fresh |-> FALSE,
                             paths |-> IF c = "deleteData"
                                       THEN <<rel_path, path>> ELSE <<>>,
                             was |-> store]
            /\ hist' = Append(hist,
                    [op |-> "put", res |-> IF c \in {"return", "deleteData"}
                                           THEN "ok" ELSE c])
    /\ op' = "put_occurrence"
    /\ UNCHANGED <<ref, backend, context_store, calls, pc, loc, pre,
                   descriptor, array, digest, data, ids2, walk, nc,
                   difference, file, pulse>>

\* ids_toplevel.py 261-309: deleteData(occurrence)
deleteData_occurrence ==
    /\ Callable
    /\ \E occurrence \in OccurrenceRange :
        LET rel_path == occurrence_path(occurrence)
        IN  /\ store' = [store EXCEPT ![rel_path] = DeletedChildren(@)]
            /\ addressed' = [occurrence |-> occurrence, fresh |-> FALSE,
                             paths |-> <<rel_path>>, was |-> store]
    /\ hist' = Append(hist, [op |-> "deleteData", res |-> "ok"])
    /\ op' = "deleteData_occurrence"
    /\ UNCHANGED <<ids, ref, backend, context_store, calls, pc, loc, pre,
                   descriptor, array, digest, data, ids2, walk, nc,
                   difference, file, pulse>>

\* ids_toplevel.py 198-259: get(occurrence), into the top-level as it is or
\* into a newly built one
get_occurrence ==
    /\ Callable
    /\ \E occurrence \in OccurrenceRange, fresh \in BOOLEAN :
        LET t == IF fresh THEN EmptyTree ELSE ids
            path == occurrence_path(occurrence)
            homogeneousTime == IF t.ht = EMPTY_INT THEN store[path].ht ELSE t.ht
            stops == homogeneousTime \notin IDS_TIME_MODES
        IN  /\ ids' = IF stops THEN t ELSE ReadInto(t, store[path])
            /\ ref' = IF fresh THEN ids ELSE ref
            /\ addressed' =
                    [occurrence |-> occurrence, fresh |-> fresh,
                     paths |-> (IF t.ht = EMPTY_INT THEN <<path>> ELSE <<>>)
                                \o (IF stops THEN <<>> ELSE <<path, path>>),
                     was |-> store]
    /\ hist' = Append(hist, [op |-> "get", res |-> "ok"])
    /\ op' = "get_occurrence"
    /\ UNCHANGED <<backend, context_store, calls, pc, loc, pre,
                   descriptor, array, digest, data, ids2, walk, nc,
                   difference, file, pulse, store>>

NextOcc ==
    \/ put_occurrence
    \/ deleteData_occurrence
    \/ get_occurrence

SpecOcc == InitOcc /\ [][NextOcc]_vars

\* ------------------------------------------------------------ observations
\* the running (or last) operation has handed control back to its caller
AtReturn == pc = "idle" /\ hist # <<>>
Result == Last(hist).res
LastOp == Last(hist).op

BeginCalls == {"begin_global_action", "begin_arraystruct_action"}

\* the handles the backend returned to the current operation
BegunHandles ==
    {calls[j].h : j \in {n \in 1..Len(calls) : calls[n].f \in BeginCalls /\ calls[n].h > 0}}

EndCount(h) ==
    Cardinality({j \in 1..Len(calls) : calls[j].f = "end_action" /\ calls[j].h = h})

\* the handles begun under `by`
HandlesOf(by) ==
    {calls[j].h : j \in {n \in 1..Len(calls) :
        calls[n].f \in BeginCalls /\ calls[n].h > 0 /\ calls[n].by = by}}

\* the write preconditions of a put reject the tree
Rejected(t) ==
    \/ t.ht = IDS_TIME_MODE_UNKNOWN
    \/ t.ht = IDS_TIME_MODE_HOMOGENEOUS /\ Len(t.time) = 0

\* ------------------------------------------------------------------ claims
\* C1: when a backend call fails during a top-level get, put or deleteData,
\* every handle the operation opened is ended and its path-map entry removed
\* before the error reaches the caller, so the map is as it was at the call.
C1_UnwoundOnError ==
    (AtReturn /\ Result = "BackendError") =>
        /\ \A h \in BegunHandles : h \notin Range(open)
        /\ context_store = pre.context_store

\* C2: in a get or put that returns without error, every handle returned by a
\* begin call is ended by exactly one end-action call, also for an array of
\* structures whose backend-reported size is 0.
C2_EachHandleEndedOnce ==
    (AtReturn /\ LastOp \in {"get", "put"} /\ Result = "ok") =>
        \A h \in BegunHandles : EndCount(h) = 1

\* C3: after a get, put or deleteData that returns without error the
\* handle -> path map holds exactly the entries it held before the call.
C3_MapRestored ==
    (AtReturn /\ Result = "ok") => context_store = pre.context_store

C3_Witness ==
    /\ AtReturn
    /\ Result = "ok"
    /\ LastOp = "get"
    /\ HandlesOf("readHomogeneous") # {}
    /\ HandlesOf("read_data_dictionary_version") # {}
    /\ HandlesOf("IDSStructArray.get") # {}
    /\ pre.context_store = (Idx :> RootPath)

\* C4: during a get or put an end-action is only ever issued on the most
\* recently opened handle that has not yet been ended.
C4_EndsInLifoOrder ==
    [][(/\ op \in {"get", "put"}
        /\ Len(calls') = Len(calls) + 1
        /\ Last(calls').f = "end_action")
       => (open # <<>> /\ Last(calls').h = Last(open))]_vars

\* C5: every backend call that returns a non-zero status makes the enclosing
\* top-level operation fail with a backend error.
C5_NoStatusIgnored ==
    (AtReturn /\ \E j \in 1..Len(calls) : ~calls[j].ok) => Result = "BackendError"

\* C6: put on a tree whose time mode is UNKNOWN fails with TimeModeUndefined,
\* raised to the caller, and no backend call is issued.
C6_UnknownTimeModeRaises ==
    (AtReturn /\ LastOp = "put" /\ pre.ids.ht = IDS_TIME_MODE_UNKNOWN) =>
        (Result = "TimeModeUndefined" /\ calls = <<>>)

\* C7: put on a tree whose time mode is HOMOGENEOUS and whose time vector is
\* empty fails with EmptyTimeBase before any backend call: nothing stored is
\* deleted and no context is opened.
C7_EmptyTimeBaseBeforeBackend ==
    (op = "put" /\ pre.ids.ht = IDS_TIME_MODE_HOMOGENEOUS /\ Len(pre.ids.time) = 0) =>
        /\ pc = "idle"
        /\ Result = "EmptyTimeBase"
        /\ calls = <<>>
        /\ storage = pre.storage
        /\ open = pre.open
        /\ context_store = pre.context_store

C7_Witness ==
    /\ AtReturn
    /\ LastOp = "put"
    /\ Result = "EmptyTimeBase"
    /\ pre.ids.ht = IDS_TIME_MODE_HOMOGENEOUS
    /\ storage.x = 42
    /\ storage.aos # <<>>

\* C8: when a put is rejected by a write precondition, every node of the
\* in-memory tree, version_put included, has the value it had before the call.
C8_RejectedPutLeavesTree ==
    (AtReturn /\ LastOp = "put" /\ Rejected(pre.ids)) => ids = pre.ids

\* C9: in a put the delete of the stored data (its own context opened, one
\* delete per top-level child, context ended) completes before the write
\* context is opened: no write call precedes a delete call and the two
\* contexts are never open together.
C9_DeleteBeforeWrite ==
    op = "put" =>
        /\ \A a, b \in 1..Len(calls) :
              (a < b /\ calls[b].by = "deleteData") => calls[a].by = "deleteData"
        /\ ~(\E d \in HandlesOf("deleteData"), w \in HandlesOf("to_ualstore") :
                d \in Range(open) /\ w \in Range(open))
        /\ (AtReturn /\ Result = "ok" /\ calls # <<>>) =>
              /\ Len(calls) > Len(Children) + 2
              /\ calls[1].f = "begin_global_action" /\ calls[1].by = "deleteData"
              /\ \A j \in 1..Len(Children) :
                    calls[j + 1].f = "delete_data" /\ calls[j + 1].ok
              /\ calls[Len(Children) + 2].f = "end_action"
              /\ calls[Len(Children) + 2].h = calls[1].h
              /\ calls[Len(Children) + 3].by = "to_ualstore"

C9_Witness ==
    /\ AtReturn
    /\ LastOp = "put"
    /\ Result = "ok"
    /\ pre.storage.x = 42
    /\ storage.x = EMPTY_INT
    /\ \E j \in 1..Len(calls) : calls[j].f = "iterate_over_arraystruct"

\* a leaf holds the empty value of its type
EmptyLeaf(t, name) ==
    CASE name \in {"ht", "x"} -> t[name] = EMPTY_INT
      [] name \in {"dd", "lang"} -> t[name] = ""
      [] name = "time" -> Len(t[name]) = 0

\* every filled leaf of t has an equal value in u, and the arrays of
\* structures have the same length
FilledEqual(t, u) ==
    /\ \A name \in Range(Leaves) : ~EmptyLeaf(t, name) => u[name] = t[name]
    /\ Len(u.aos) = Len(t.aos)
    /\ \A j \in 1..Len(t.aos) : t.aos[j].v # EMPTY_INT => u.aos[j].v = t.aos[j].v

\* a put that went through, followed by a get into a fresh tree, on a backend
\* that answered every call with status 0
RoundTrip ==
    /\ AtReturn
    /\ Len(hist) >= 2
    /\ hist[Len(hist) - 1] = [op |-> "put", res |-> "ok"]
    /\ hist[Len(hist)] = [op |-> "get", res |-> "ok"]
    /\ pre.fresh
    /\ faults = 0
    /\ to_ualstore_check(ref) = "deleteData"

LastTwo(o1, o2) ==
    /\ AtReturn
    /\ Len(hist) >= 2
    /\ hist[Len(hist) - 1] = [op |-> o1, res |-> "ok"]
    /\ hist[Len(hist)] = [op |-> o2, res |-> "ok"]

\* C11: after put(T1) and then put(T2) at the same occurrence, what is stored
\* and what a get into a fresh tree yields is exactly the content of T2 (no
\* leaf and no array element stored only by T1 remains), and putting the same
\* tree twice leaves the same stored content as putting it once.
C11_PutOverwrites ==
    /\ (AtReturn /\ LastOp = "put" /\ Result = "ok") => storage = ids
    /\ (LastTwo("put", "get") /\ pre.fresh /\ faults = 0) => ids = ref
    /\ (LastTwo("put", "put") /\ ids = pre.ids) => storage = pre.storage

\* the calls that wrote the body of an array element, in the order issued
ElementWrites ==
    {j \in 1..Len(calls) :
        calls[j].f = "write_data" /\ calls[j].by = "IDSStructArray.put" /\ calls[j].ok}

\* C12: a put of an array of structures writes exactly len(array) element
\* bodies, elements 0..len-1 each once and in index order, whatever size the
\* backend returns from begin-array-action.
C12_WritesInMemoryLength ==
    /\ (op = "put" /\ pc \in {"aos_put_elem", "aos_put_iter", "aos_put_end"}) =>
          /\ Cardinality(ElementWrites) <= Len(ids.aos)
          /\ \A j \in 1..Cardinality(ElementWrites) : storage.aos[j] = ids.aos[j]
    /\ (AtReturn /\ LastOp = "put" /\ Result = "ok" /\ calls # <<>>) =>
          /\ Cardinality(ElementWrites) = Len(ids.aos)
          /\ storage.aos = ids.aos

\* the calls of the current operation that advanced, or were to advance, the
\* cursor of the array of structures
IterateCalls == {j \in 1..Len(calls) : calls[j].f = "iterate_over_arraystruct"}

ArrayBy == {"IDSStructArray.get", "IDSStructArray.put"}

\* C13: in a get or put of an array of structures that processes n elements
\* the backend cursor is advanced exactly n times by one step: the k-th
\* iterate call follows the body of element k and precedes the body of element
\* k+1, and every body runs with the cursor at the element's own index.
C13_CursorFollowsElements ==
    /\ pc \in {"aos_get_elem", "aos_get_iter", "aos_put_elem", "aos_put_iter"} =>
          (cursor = loc.i /\ Cardinality(IterateCalls) = loc.i)
    /\ pc \in {"aos_get_end", "aos_put_end"} =>
          (cursor = loc.size /\ Cardinality(IterateCalls) = loc.size)
    /\ \A j \in IterateCalls :
          /\ j > 1
          /\ calls[j - 1].f \in {"read_data", "write_data"}
          /\ calls[j - 1].by \in ArrayBy
    /\ \A j \in 2..Len(calls) :
          (calls[j].f \in {"read_data", "write_data"} /\ calls[j].by \in ArrayBy) =>
              calls[j - 1].f \in {"begin_arraystruct_action", "iterate_over_arraystruct"}

\* the position of a call in the phases of a get: the time mode, the version
\* tag, the children
Phase(by) ==
    CASE by = "readHomogeneous" -> 1
      [] by = "read_data_dictionary_version" -> 2
      [] OTHER -> 3

\* the positions in get after lines 218-240, up to the end of the main context
ReadingChildren ==
    {"get_begin", "get_body", "aos_get_begin", "aos_get_elem", "aos_get_iter",
     "aos_get_end", "get_end"}

\* _read_backend_xml was called by the running operation
BuiltBackendXml == Len(backend_xml) > Len(pre.backend_xml)

\* C14: in a get that reads children the time mode is obtained first, then the
\* stored version tag is read, then the backend descriptor tree is built if
\* and only if the stored version differs from the in-memory schema version
\* (or a backend schema path is set), and only then is the main read context
\* opened; each preliminary read has its own context, ended before the next
\* context is opened.
C14_GetOrder ==
    op = "get" =>
        /\ \A a, b \in 1..Len(calls) :
              a < b => Phase(calls[a].by) <= Phase(calls[b].by)
        /\ \A b \in 1..Len(calls) :
              (calls[b].f = "begin_global_action") =>
                  \A a \in 1..(b - 1) :
                      (calls[a].f = "begin_global_action" /\ calls[a].h > 0) =>
                          \E e \in (a + 1)..(b - 1) :
                              calls[e].f = "end_action" /\ calls[e].h = calls[a].h
        /\ pc = "get_version" =>
              /\ open = pre.open
              /\ \E j \in 1..Len(calls) :
                    calls[j].f = "read_data" /\ calls[j].ok
                    /\ calls[j].by = "read_data_dictionary_version"
              /\ ~BuiltBackendXml
        /\ pc \in ReadingChildren =>
              (BuiltBackendXml <=>
                  (backend_xml_path \/ (storage.dd # "" /\ storage.dd # Version)))

\* the first get of a top-level built with a backend version and no backend
\* xml path, the data stored carrying another version tag
DeclaredMismatch ==
    /\ op = "get"
    /\ Len(hist) = 0 \/ (Len(hist) = 1 /\ pc = "idle")
    /\ backend_version # ""
    /\ ~backend_xml_path
    /\ storage.dd # ""
    /\ storage.dd # backend_version

\* C15: a get on a top-level built with a declared backend version that
\* differs from the version tag stored does not fail (the discrepancy is
\* logged), and the stored version, not the declared one, selects the backend
\* descriptor tree of the read.
C15_StoredVersionWins ==
    DeclaredMismatch =>
        /\ (AtReturn /\ faults = 0) => Result = "ok"
        /\ pc \in ReadingChildren => loc.backend_version = storage.dd

\* the identities of the elements of an array
IdsOf(a) == {a[j].id : j \in 1..Len(a)}

\* an element built from the template by the last call: empty, owned by the
\* array, and neither in the array before the call nor handed in by the caller
Fresh(e) ==
    /\ e.v = EMPTY_INT
    /\ e.parent = "self"
    /\ e.id \notin IdsOf(last.was) \cup IdsOf(last.elements)

\* n does not exceed the maximum-occurrence, if one is set
WithinMaxoccur(n) == maxoccur = 0 \/ n <= maxoccur

\* C16: for every n >= 0 within the maximum-occurrence and every prior
\* content, resize(n, keep=false) succeeds and leaves exactly n elements, each
\* freshly built from the template, empty, and not in the array before (also
\* for n = 0, n equal to and n smaller than the previous length).
C16_ResizeRebuilds ==
    (last.op = "resize" /\ ~last.keep /\ WithinMaxoccur(last.nbelt)) =>
        /\ last.err = "none"
        /\ Len(arr) = last.nbelt
        /\ \A j \in 1..Len(arr) : Fresh(arr[j])

\* resize(n, keep=true) was called with n not below the length
GrowsKeeping == last.op = "resize" /\ last.keep /\ last.nbelt >= Len(last.was)

\* the elements before the call are in place, followed by fresh ones up to n
KeptAndGrown ==
    /\ last.err = "none"
    /\ Len(arr) = last.nbelt
    /\ SubSeq(arr, 1, Len(last.was)) = last.was
    /\ \A j \in (Len(last.was) + 1)..Len(arr) : Fresh(arr[j])

\* C17 (as stated): resize(n, keep=true) with n >= the current length c keeps
\* the elements at 0..c-1 (same instances, order, values) and appends n - c
\* fresh empty elements, so the length becomes n; for n = c nothing changes
\* and no error is raised.
C17_ResizeKeeps == GrowsKeeping => KeptAndGrown

\* C17 (amended): the same, for n within the maximum-occurrence if one is set.
C17_ResizeKeepsWithinMaxoccur ==
    (GrowsKeeping /\ WithinMaxoccur(last.nbelt)) => KeptAndGrown

C17_Witness ==
    /\ GrowsKeeping
    /\ Len(last.was) >= 1
    /\ \E j \in 1..Len(last.was) : last.was[j].v = 42
    /\ last.nbelt > Len(last.was)
    /\ Len(arr) = last.nbelt
    /\ maxoccur = Len(arr)

C19_AppendAllOrNothing ==
    (last.op = "append" /\ maxoccur > 0
        /\ Len(last.was) + Len(last.elements) > maxoccur) =>
        (last.err = "RuntimeError" /\ arr = last.was)

\* C20: whatever sequence of append, resize, item assignment and backend get
\* has run on an array with maximum-occurrence m > 0, its length is at most m.
C20_LengthWithinMaxoccur == maxoccur > 0 => Len(arr) <= maxoccur

C20_Witness ==
    /\ maxoccur > 0
    /\ Len(hist) = MaxOps
    /\ \A j \in 1..Len(hist) : hist[j].res = "RuntimeError"
    /\ last.op = "get"
    /\ Len(arr) = maxoccur

\* C21: after any sequence of append, resize and item assignment, every
\* element held by the array of structures has its parent back-reference set,
\* and it refers to the array that holds it.
C21_ElementsHaveParent ==
    \A j \in 1..Len(arr) : arr[j].parent = "self"

\* C22: after any sequence of append and resize calls, no Structure instance
\* occurs at two positions of the array of structures.
C22_ElementsOwnedOnce ==
    \A i, j \in 1..Len(arr) : i # j => arr[i].id # arr[j].id

\* C23: when T' is T after additionally setting one or more fields to the
\* empty value of their type, calc_hash(T') equals calc_hash(T).
C23_EmptyFieldsIgnored ==
    op = "set_empty" => digest.ids = digest.ref

C23_Witness ==
    /\ op = "set_empty"
    /\ Len(hist) = 2
    /\ {<<"x", 0>>, <<"aos", 0>>} \subseteq ids.touched
    /\ ref.touched = {}
    /\ ref.ht # EMPTY_INT

\* C24: when T and T' differ only in the content of
\* ids_properties/version_put, calc_hash(T) equals calc_hash(T').
C24_VersionPutIgnored ==
    op = "set_version_put" => digest.ids = digest.ref

\* C25: changing the value of a non-empty leaf outside version_put,
\* changing the length of an array of structures, or exchanging two
\* elements with different filled content changes the hash.
C25_HashInjective ==
    op \in {"set_leaf", "set_length", "exchange"} => digest.ids # digest.ref

C25_Witness ==
    /\ op = "exchange"
    /\ ref.aos[1].v = 42
    /\ ref.aos[2].v = 43
    /\ ids.aos[1].v = 43

\* C26: deserialize(serialize(tree)) into a fresh tree of the same schema
\* version gives a tree with an identical hash, an equal value at every
\* filled path and arrays of structures of equal length.
C26_SerializeRoundTrip ==
    op = "deserialize" => (FilledEqual(ids, ids2) /\ digest.ids = digest.ref)

C26_Witness ==
    /\ op = "deserialize"
    /\ Len(ids.aos) = 2
    /\ ids.aos[1].v = EMPTY_INT
    /\ ids.aos[2].v = 42
    /\ ids.x = 43
    /\ ids.time # <<>>
    /\ ids.dd = Version
    /\ ids2.aos = ids.aos

\* version_put as put fills it in: the language, and the backend version if
\* one is set, the schema version otherwise
Stamped(t) ==
    /\ t.lang = "Python"
    /\ t.dd = IF backend_version # "" THEN backend_version ELSE Version

\* C27: a put called without an explicit data store sets
\* version_put/access_layer_language to "Python" and
\* version_put/data_dictionary to the backend version if one is set and to
\* the schema version otherwise, before anything is written, and a get into
\* a fresh tree after the put reads those values back.
C27_PutStampsVersion ==
    /\ Stamped(stamp(ids, FALSE))
    /\ op = "put" => ids \in {stamp(pre.ids, FALSE), stamp(pre.ids, TRUE)}
    /\ (RoundTrip /\ Stamped(ref)) => Stamped(ids)

C27_Witness ==
    /\ RoundTrip
    /\ Stamped(ref)
    /\ backend_version = OtherVersion
    /\ ~backend_xml_path
    /\ ids.dd = OtherVersion
    /\ ids.lang = "Python"
    /\ ids.x = 42

\* a tree_iter call is running, or was the last thing the caller did
Iterated == op = "tree_iter"
Exhausted == Iterated /\ pc = "idle"

Selected(t, req) ==
    {d \in Descendants(t, req.node) :
        /\ req.visit_empty \/ has_value(t, d)
        /\ ~req.leaf_only \/ IsPrimitive(d)}
    \cup (IF req.include_node /\ (~req.leaf_only \/ IsPrimitive(req.node))
          THEN {req.node} ELSE {})

RECURSIVE Path(_)
Path(node) == IF node = Root THEN <<Root>> ELSE Append(Path(Parent(node)), node)

IndexIn(seq, e) == CHOOSE k \in 1..Len(seq) : seq[k] = e

\* u comes before w in depth-first pre-order: u is above w, or u lies under
\* an earlier child of their last common ancestor than w
DocBefore(t, u, w) ==
    LET p == Path(u)
        q == Path(w)
        c == Cardinality({i \in 1..Len(p) :
                            i <= Len(q) /\ \A j \in 1..i : p[j] = q[j]})
    IN  IF c = Len(p) THEN Len(q) > c
        ELSE IF c = Len(q) THEN FALSE
        ELSE IndexIn(ChildrenOf(t, p[c]), p[c + 1])
                < IndexIn(ChildrenOf(t, p[c]), q[c + 1])

InPreOrder ==
    \A a, b \in 1..Len(yielded) : a < b => DocBefore(ids, yielded[a], yielded[b])

\* C29: tree_iter over a finite tree terminates and yields the selected
\* descendants in depth-first pre-order, each exactly once, an internal node
\* before its descendants and the nodes under one child before those of the
\* next sibling; a call made after the tree was modified walks the tree as
\* it is then.
C29_PreOrderAndTerminates ==
    /\ [](Iterated => InPreOrder)
    /\ [](Exhausted => Range(yielded) = Selected(ids, request))
    /\ (pc = "tree_iter") ~> (pc = "idle")

C29_Witness ==
    /\ Exhausted
    /\ \E j \in 1..Len(hist) : hist[j].op = "fill"
    /\ request.node = Root
    /\ ~request.leaf_only
    /\ request.visit_empty
    /\ Len(ids.aos) = 2
    /\ Len(yielded) = 13

\* the filled occurrences of a tree, each with the dimensions of its
\* variable, its AoS index and its shape
Occurrences(t) ==
    LET h == t.ht = 1 IN
    (IF Len(t.time) > 0
     THEN {[dimensions |-> get_dimensions("time", h), aos_index |-> <<>>,
            shape |-> <<Len(t.time)>>]}
     ELSE {})
    \cup (IF Len(t.aos) > 0
          THEN {[dimensions |-> get_dimensions("aos", h), aos_index |-> <<>>,
                 shape |-> <<Len(t.aos)>>]}
          ELSE {})
    \cup {[dimensions |-> get_dimensions("aos/v", h), aos_index |-> <<i - 1>>,
           shape |-> <<>>] : i \in {j \in 1..Len(t.aos) : t.aos[j].v # EMPTY_INT}}
    \cup {[dimensions |-> get_dimensions("aos/w", h), aos_index |-> <<i - 1>>,
           shape |-> <<Len(t.aos[i].w)>>] :
                i \in {j \in 1..Len(t.aos) : Len(t.aos[j].w) > 0}}

\* the extents of the occurrences along a dimension they have of their own
Extents(t, dim_name) ==
    {o.shape[Len(o.shape)] :
        o \in {oc \in Occurrences(t) :
                /\ oc.shape # <<>>
                /\ oc.dimensions[Len(oc.dimensions)] = dim_name}}

\* an occurrence fits: every position of its AoS index and every extent of
\* its shape is within the dimension created for it
Fits(o, used) ==
    /\ \A k \in 1..Len(o.dimensions) : o.dimensions[k] \in DOMAIN used
    /\ \A k \in 1..Len(o.aos_index) : o.aos_index[k] < used[o.dimensions[k]]
    /\ \A k \in 1..Len(o.shape) :
        o.shape[k] <= used[o.dimensions[Len(o.aos_index) + k]]

\* C30: ids2nc creates every dimension with the maximum extent over the
\* filled occurrences that use it, so that the AoS index and the shape of
\* every filled occurrence lie within the created dimensions.
C30_DimensionsAtMaximum ==
    op = "ids2nc" =>
        /\ \A d \in DOMAIN used_dimensions :
            /\ Extents(ids, d) # {}
            /\ used_dimensions[d] \in Extents(ids, d)
            /\ \A n \in Extents(ids, d) : n <= used_dimensions[d]
        /\ \A o \in Occurrences(ids) : Fits(o, used_dimensions)

C30_Witness ==
    /\ op = "ids2nc"
    /\ ids.ht = 1
    /\ Len(ids.time) = 1
    /\ Len(ids.aos) = 2
    /\ Len(ids.aos[1].w) = 2
    /\ Len(ids.aos[2].w) = 1
    /\ ids.aos[2].v = 42
    /\ used_dimensions["time"] = 2
    /\ used_dimensions["aos.w:i"] = 2

\* the schema paths of a tree that have a filled primitive occurrence
FilledPaths(t) ==
    (IF t.ht # EMPTY_INT THEN {"ids_properties/homogeneous_time"} ELSE {})
        \cup (IF Len(t.time) > 0 THEN {"time"} ELSE {})
        \cup (IF t.x # EMPTY_INT THEN {"x"} ELSE {})
        \cup (IF \E j \in 1..Len(t.aos) : t.aos[j].v # EMPTY_INT
              THEN {"aos/v"} ELSE {})
        \cup (IF \E j \in 1..Len(t.aos) : Len(t.aos[j].w) > 0
              THEN {"aos/w"} ELSE {})

\* what the dense variable of a path is to hold at a position: the value of
\* the filled occurrence found there, the fill value where there is none
Stored(t, path, p) ==
    CASE path = "ids_properties/homogeneous_time" -> t.ht
      [] path = "x" -> t.x
      [] path = "time" ->
            IF p[1] < Len(t.time) THEN t.time[p[1] + 1] ELSE FILL
      [] path = "aos/v" ->
            IF p[1] < Len(t.aos) /\ t.aos[p[1] + 1].v # EMPTY_INT
            THEN t.aos[p[1] + 1].v ELSE FILL
      [] path = "aos/w" ->
            IF p[1] < Len(t.aos) /\ p[2] < Len(t.aos[p[1] + 1].w)
            THEN t.aos[p[1] + 1].w[p[2] + 1] ELSE FILL
      [] OTHER -> FILL

\* C31: ids2nc creates one variable for each schema path with a filled
\* primitive occurrence and no other; in it every filled occurrence is stored
\* at the position of its AoS index (an array leaf along the trailing
\* dimension) and every other position holds the fill value.
C31_VariablesHoldOccurrences ==
    op = "ids2nc" =>
        /\ group.err = "none"
        /\ DOMAIN group.variables = FilledPaths(ids)
        /\ \A path \in DOMAIN group.variables :
            \A p \in DOMAIN group.variables[path].data :
                group.variables[path].data[p] = Stored(ids, path, p)

\* the arrays of a tree that share a dimension have one extent
Regular(t) ==
    /\ \A i, j \in 1..Len(t.aos) :
        Len(t.aos[i].w) > 0 /\ Len(t.aos[j].w) > 0
            => Len(t.aos[i].w) = Len(t.aos[j].w)
    /\ (t.ht = 1 /\ Len(t.time) > 0 /\ Len(t.aos) > 0) => Len(t.time) = Len(t.aos)

\* on a tree whose arrays have one extent per dimension the variables hold
\* the filled occurrences and the fill value elsewhere
RegularTreesStored ==
    (op = "ids2nc" /\ Regular(ids)) =>
        /\ group.err = "none"
        /\ DOMAIN group.variables = FilledPaths(ids)
        /\ \A path \in DOMAIN group.variables :
            \A p \in DOMAIN group.variables[path].data :
                group.variables[path].data[p] = Stored(ids, path, p)

\* the occurrences ids2nc has collected for a path
Collected(path) == SelectSeq(filled_data, LAMBDA node : node.path = path)

\* C36: for every variable without dimensions that ids2nc creates, exactly
\* one filled occurrence was collected for its path, under the empty AoS
\* index: neither the assertion nor the lookup of () fails.
C36_ScalarVariablesSingle ==
    op = "ids2nc" =>
        /\ group.err \notin {"AssertionError", "KeyError"}
        /\ \A path \in DOMAIN group.variables :
            group.variables[path].dimensions = <<>> =>
                /\ Len(Collected(path)) = 1
                /\ Collected(path)[1].aos_index = <<>>

C36_Witness ==
    /\ op = "ids2nc"
    /\ group.err = "none"
    /\ "x" \in DOMAIN group.variables
    /\ group.variables["x"].dimensions = <<>>
    /\ group.variables["x"].data[<<>>] = 42
    /\ Len(Collected("aos/v")) = 2
    /\ Len(Collected("x")) = 1

\* the time mode a get decides on: the local value, the stored one when the
\* local value is not set
TimeModeOfGet ==
    IF LocalTimeMode # EMPTY_INT THEN LocalTimeMode ELSE pre.storage.ht

\* C32: a get on a top-level whose time mode (local, or read from the
\* backend when not set locally) is not HETEROGENEOUS, HOMOGENEOUS or
\* INDEPENDENT reads neither the version tag nor a child and changes no
\* in-memory value; when no call of the time-flag read fails it returns
\* without raising, with no context open and the path map as it was.
C32_UnknownTimeModeStops ==
    (op = "get" /\ TimeModeOfGet \notin IDS_TIME_MODES) =>
        /\ \A j \in 1..Len(calls) : calls[j].by = "readHomogeneous"
        /\ ids = IF pre.fresh THEN EmptyTree ELSE pre.ids
        /\ (AtReturn /\ \A j \in 1..Len(calls) : calls[j].ok) =>
            /\ Result = "ok"
            /\ open = pre.open
            /\ context_store = pre.context_store

C32_Witness ==
    /\ AtReturn
    /\ LastOp = "get"
    /\ Result = "ok"
    /\ ~pre.fresh
    /\ TimeModeOfGet = IDS_TIME_MODE_UNKNOWN
    /\ Len(calls) = 3
    /\ calls[2].f = "read_data"
    /\ ids.x = 42
    /\ ids.aos # <<>>

\* C33: readHomogeneous reads the time flag from the backend only when the
\* local ids_properties.homogeneous_time is unset; when it is set no context
\* is opened for the flag and the local value, not the stored one, is the
\* time mode the children are read with.
C33_LocalTimeModeUsed ==
    op = "get" =>
        /\ LocalTimeMode # EMPTY_INT =>
            \A j \in 1..Len(calls) : calls[j].by # "readHomogeneous"
        /\ (LocalTimeMode = EMPTY_INT /\ calls # <<>>) =>
            calls[1].by = "readHomogeneous"
        /\ (LocalTimeMode # EMPTY_INT /\ pc \in ReadingChildren) =>
            TimeModeSeen = LocalTimeMode

\* C34: every operation that opens a global context on the top-level records
\* for it the same path: the path of the session root, a separator, and the
\* path of the top-level.
C34_SamePathRecorded ==
    \A j \in 1..Len(calls) :
        (/\ calls[j].f = "begin_global_action"
         /\ calls[j].h > 0
         /\ calls[j].h \in DOMAIN context_store) =>
            context_store[calls[j].h] = context_store[Idx] \o <<"/", Name>>

\* the two trees hold the same filled content: equal values at every
\* non-empty leaf, equal lengths of the arrays of structures
SameFilled(t, u) == FilledEqual(t, u) /\ FilledEqual(u, t)

\* C37: idsdiffgen(T1, T2) yields no difference if and only if T1 and T2
\* have the same schema version, IDS name and path and the same filled
\* content.
C37_NoDifferenceIffSame ==
    op = "idsdiffgen" =>
        (difference.yielded = <<>>
            <=> /\ difference.version = Version
                /\ difference.name = Name
                /\ difference.node = Root
                /\ SameFilled(ids, ref))

\* apart from the lengths of the arrays of structures the claim holds: with
\* equal lengths no difference is yielded exactly for equal filled content
EqualLengthsCompared ==
    (op = "idsdiffgen" /\ Len(ids.aos) = Len(ref.aos) /\ Len(ids.aos) <= 1) =>
        (difference.yielded = <<>>
            <=> /\ difference.version = Version
                /\ difference.name = Name
                /\ difference.node = Root
                /\ SameFilled(ids, ref))

\* C38: once a UALFile has been constructed, assigning to any of its
\* attributes raises AttributeError and leaves the attribute unchanged.
C38_AttributesLocked ==
    op = "setattr" =>
        /\ Result = "AttributeError"
        /\ file.attrs = file.was

\* C39: a UALFile is readable and writeable exactly while it is open: after
\* construction closed is False; close() closes the pulse at the backend and
\* afterwards closed is True and readable and writeable are False; a second
\* close() issues no further backend call.
C39_ReadableWhileOpen ==
    /\ (op = "UALFile" /\ Result = "ok") =>
        /\ ~file.attrs["closed"]
        /\ readable(file.attrs)
        /\ writeable(file.attrs)
    /\ op = "close" =>
        /\ Result = "ok"
        /\ Cardinality({j \in 1..Len(pulse) : pulse[j] = "CLOSE_PULSE"}) = 1
        /\ file.attrs["closed"]
        /\ ~readable(file.attrs)
        /\ ~writeable(file.attrs)

\* the last call has read the children of the top-level
ReadChildren == op = "get_occurrence" /\ Len(addressed.paths) >= 2

\* every filled leaf and every element of t is stored in u
HeldIn(t, u) ==
    /\ \A name \in Range(Leaves) : ~EmptyLeaf(t, name) => u[name] = t[name]
    /\ t.aos # <<>> => t.aos = u.aos

\* put(k) and deleteData(k) hand the backend the path of occurrence k only
\* and leave what is stored under every other occurrence as it was; get(k)
\* hands it that path only
OthersUntouched ==
    op \in {"put_occurrence", "deleteData_occurrence", "get_occurrence"} =>
        /\ \A j \in 1..Len(addressed.paths) :
            addressed.paths[j] =
                IF addressed.occurrence = 0 THEN <<Name>>
                ELSE <<Name, "/", ToString(addressed.occurrence)>>
        /\ \A k \in OccurrenceRange \ {addressed.occurrence} :
            store[occurrence_path(k)] = addressed.was[occurrence_path(k)]

\* a get into a newly built top-level returns what is stored at its occurrence
FreshGetReturnsStored ==
    (ReadChildren /\ addressed.fresh) =>
        ids = store[occurrence_path(addressed.occurrence)]

\* C35: put, get and deleteData with occurrence k address only the backend
\* path of occurrence k: what is stored at another occurrence is unchanged
\* by put(k) and deleteData(k), and get(k) returns only what was stored at
\* occurrence k.
C35_OnlyOccurrenceAddressed ==
    /\ OthersUntouched
    /\ ReadChildren => HeldIn(ids, store[occurrence_path(addressed.occurrence)])

====
